---- MODULE Spec2Model ----
(***************************************************************************)
(* Model of the insight orchestrator of nexus-ai (package llm, AIClient)   *)
(* and of the text functions it is built from.                             *)
(*                                                                         *)
(* Texts are sequences of tokens.  A token is a TLA+ string standing for   *)
(* a piece of the Go string that none of the code's patterns splits: one   *)
(* whitespace character, one punctuation or markdown marker, or one word   *)
(* or literal of the code.  The Russian literals of the code are written   *)
(* in Latin transliteration:                                               *)
(*   "Energiya", "Vygoranie", "Chto delat zavtra": the three required      *)
(*       headers (part_009:361);                                           *)
(*   "Risk vygoraniya poka neizvesten iz-za nedostatka dannyh" followed by *)
(*       ".": the disclaimer needUnknown (part_009:368);                   *)
(*   "dannyh malo", "vyvod predvaritel": the phrases of part_009:313,386;  *)
(*   "Zametki" followed by ":": the notes marker (part_009:410);           *)
(*   "nedostatochno dannyh": the level of part_013:103;                    *)
(*   "glyukoz" "gormon" "bioritm" "biolog" "fiziolog" "v krovi": the       *)
(*       banned terms (part_009:286);                                      *)
(*   "EN_DASH" = U+2013, "BULLET" = U+2022, "BACKTICK" = U+0060,           *)
(*   "FENCE" = three backquotes.                                           *)
(* Go's index -1 ("not found") is 0 here; indices are 1-based.             *)
(***************************************************************************)
EXTENDS Integers, Sequences, FiniteSets, TLC

(***************************************************************************)
(* Package strings, on token sequences.                                    *)
(***************************************************************************)
WS == {" ", "\t", "\n", "\r"}

Positions(s) == [i \in 1..Len(s) |-> i]

\* A local variable: e is computed once and Body runs with its value.
Let(e, Body(_)) == CHOOSE out \in {Body(v) : v \in {e}} : TRUE

\* The tokens of s at the positions that satisfy Keep, in order.
Pick(s, Keep(_)) ==
  LET sel == SelectSeq(Positions(s), Keep)
  IN SubSeq([k \in 1..Len(sel) |-> s[sel[k]]], 1, Len(sel))

TrimLeftSet(s, cut) ==
  LET keep == SelectSeq(Positions(s), LAMBDA i : s[i] \notin cut)
  IN IF keep = <<>> THEN <<>> ELSE SubSeq(s, keep[1], Len(s))

TrimSpace(s) ==
  LET keep == SelectSeq(Positions(s), LAMBDA i : s[i] \notin WS)
  IN IF keep = <<>> THEN <<>> ELSE SubSeq(s, keep[1], keep[Len(keep)])

HasPrefix(s, pre) == Len(s) >= Len(pre) /\ SubSeq(s, 1, Len(pre)) = pre

HasSuffix(s, suf) ==
  Len(s) >= Len(suf) /\ SubSeq(s, Len(s) - Len(suf) + 1, Len(s)) = suf

TrimPrefix(s, pre) ==
  IF HasPrefix(s, pre) THEN SubSeq(s, Len(pre) + 1, Len(s)) ELSE s

TrimSuffix(s, suf) ==
  IF HasSuffix(s, suf) THEN SubSeq(s, 1, Len(s) - Len(suf)) ELSE s

OccursAt(s, sub, i) ==
  i >= 1 /\ i + Len(sub) - 1 <= Len(s) /\ SubSeq(s, i, i + Len(sub) - 1) = sub

Occurrences(s, sub) == SelectSeq(Positions(s), LAMBDA i : OccursAt(s, sub, i))

Index(s, sub) ==
  LET occ == Occurrences(s, sub) IN IF occ = <<>> THEN 0 ELSE occ[1]

LastIndex(s, sub) ==
  LET occ == Occurrences(s, sub) IN IF occ = <<>> THEN 0 ELSE occ[Len(occ)]

Contains(s, sub) == Index(s, sub) # 0

\* strings.ReplaceAll(s, old, ""), old one token.
RemoveAll(s, old) == SelectSeq(s, LAMBDA t : t # old)

\* strings.ReplaceAll(s, "\r\n", "\n")
ReplaceCRLF(s) ==
  Pick(s, LAMBDA i : ~(s[i] = "\r" /\ i < Len(s) /\ s[i + 1] = "\n"))

\* strings.Split(s, "\n"): always at least one (possibly empty) line.
Split(s) ==
  LET nl == SelectSeq(Positions(s), LAMBDA i : s[i] = "\n")
      n == Len(nl) + 1
  IN SubSeq([k \in 1..n |->
               SubSeq(s, IF k = 1 THEN 1 ELSE nl[k - 1] + 1,
                         IF k = n THEN Len(s) ELSE nl[k] - 1)], 1, n)

\* strings.Join(lines, "\n")
RECURSIVE Join(_)
Join(lines) ==
  IF Len(lines) = 0 THEN <<>>
  ELSE IF Len(lines) = 1 THEN lines[1]
  ELSE lines[1] \o <<"\n">> \o Join(SubSeq(lines, 2, Len(lines)))

\* strings.ToLower, token by token.
LowerTok(t) ==
  CASE t = "<THINK>" -> "<think>"
    [] t = "</THINK>" -> "</think>"
    [] t = "<Think>" -> "<think>"
    [] t = "</Think>" -> "</think>"
    [] t = "Analysis" -> "analysis"
    [] t = "Thoughts" -> "thoughts"
    [] t = "Gormon" -> "gormon"
    [] t = "Dannyh malo" -> "dannyh malo"
    [] t = "Vyvod predvaritel" -> "vyvod predvaritel"
    [] t = "Energiya" -> "energiya"
    [] t = "Vygoranie" -> "vygoranie"
    [] t = "Chto delat zavtra" -> "chto delat zavtra"
    [] t = "Zametki" -> "zametki"
    [] t = "LENGTH" -> "length"
    [] t = "Length" -> "length"
    [] OTHER -> t

ToLower(s) == SubSeq([i \in 1..Len(s) |-> LowerTok(s[i])], 1, Len(s))

EqualFold(a, b) == LowerTok(a) = LowerTok(b)

\* First index >= i whose token is not in set (Len(s)+1 when none).
RunEnd(s, i, set) ==
  LET stop == SelectSeq(Positions(s), LAMBDA j : j >= i /\ s[j] \notin set)
  IN IF stop = <<>> THEN (IF i > Len(s) THEN i ELSE Len(s) + 1) ELSE stop[1]

(***************************************************************************)
(* isTruncated, cleanLLMText, toPlainText (part_009 lines 176-280).        *)
(***************************************************************************)
\* A variant of isTruncated that looks at the finish reason only.
isTruncated_finishonly(finishReason, text) == EqualFold(finishReason, "length")

isTruncated(finishReason, text) ==
  IF EqualFold(finishReason, "length") THEN TRUE
  ELSE IF text = <<>> THEN FALSE
  ELSE LET last == TrimSpace(text) IN
       IF HasSuffix(last, <<":">>) \/ HasSuffix(last, <<"-">>)
          \/ HasSuffix(last, <<"EN_DASH">>)
         THEN TRUE
         ELSE Len(last) >= 2 /\ last[Len(last)] = ":"

\* Lines 203-208: the text after the last closing think tag, if any.
afterThink(s) ==
  LET idxEnd == LastIndex(ToLower(s), <<"</think>">>)
  IN IF idxEnd # 0 THEN TrimSpace(SubSeq(s, idxEnd + 1, Len(s))) ELSE <<>>

\* Lines 225-231: cut what precedes the first "Energiya" header.
cutToHeader(s) ==
  LET idx == Index(s, <<"\n", "Energiya">>)
      idx2 == Index(s, <<"Energiya">>)
  IN IF idx # 0 THEN TrimSpace(SubSeq(s, idx + 1, Len(s)))
     ELSE IF ~HasPrefix(s, <<"Energiya">>) /\ idx2 # 0
       THEN TrimSpace(SubSeq(s, idx2, Len(s)))
       ELSE s

\* Lines 210-222: the think tags, the code fence and the leading
\* whitespace go.
stripWrapping(s) ==
  LET s1 == RemoveAll(s, "<think>")
      s2 == RemoveAll(s1, "</think>")
      s3 == RemoveAll(s2, "<THINK>")
      s4 == RemoveAll(s3, "</THINK>")
      s5 == TrimSpace(s4)
      s6 == TrimPrefix(s5, <<"FENCE">>)
      s7 == TrimSuffix(s6, <<"FENCE">>)
      s8 == TrimSpace(s7)
  IN TrimSpace(TrimLeftSet(s8, {"\n", "\r", "\t", " "}))

cleanLLMText(s0) ==
  Let(TrimSpace(s0), LAMBDA s :
    IF s = <<>> THEN s
    ELSE Let(afterThink(s), LAMBDA after :
      IF after # <<>> THEN after
      ELSE Let(stripWrapping(s), LAMBDA s9 : TrimSpace(cutToHeader(s9)))))

IsLineStart(s, i) == i = 1 \/ s[i - 1] = "\n"

Digits == {"0", "1", "2", "3", "4", "5", "6", "7", "8", "9"}

\* End (exclusive) of the match of the regexp at position i, 0 if none.
\*   reHeading:  line start, 0-3 spaces, 1-6 '#', 1+ spaces
\*   reListNum:  line start, spaces, digits, '.', 1+ spaces
\*   reListDash: line start, spaces, '-' or bullet, 1+ spaces
\* (a "space" of these regexps is any of blank, tab, newline, return)
reMatchEnd(re, s, i) ==
  LET a == RunEnd(s, i, WS) IN
  CASE re = "reHeading" ->
         LET b == RunEnd(s, a, {"#"})
             c == RunEnd(s, b, WS)
         IN IF a - i <= 3 /\ b - a >= 1 /\ b - a <= 6 /\ c > b THEN c ELSE 0
    [] re = "reListNum" ->
         LET b == RunEnd(s, a, Digits)
             c == IF b <= Len(s) /\ s[b] = "." THEN RunEnd(s, b + 1, WS) ELSE 0
         IN IF b > a /\ c > b + 1 THEN c ELSE 0
    [] re = "reListDash" ->
         LET c == IF a <= Len(s) /\ s[a] \in {"-", "BULLET"}
                    THEN RunEnd(s, a + 1, WS) ELSE 0
         IN IF c > a + 1 THEN c ELSE 0

\* Positions covered by the successive non-overlapping matches of re that
\* start at the candidate positions cands, scanning from position from.
RECURSIVE reCovered(_, _, _, _)
reCovered(re, s, cands, from) ==
  IF Len(cands) = 0 THEN {}
  ELSE LET i == cands[1]
           rest == SubSeq(cands, 2, Len(cands))
       IN IF i < from THEN reCovered(re, s, rest, from)
          ELSE (i..(reMatchEnd(re, s, i) - 1))
               \cup reCovered(re, s, rest, reMatchEnd(re, s, i))

\* re.ReplaceAllString(s, "") for the three line-anchored regexps.
reStrip(re, s) ==
  LET cands == SelectSeq(Positions(s),
                 LAMBDA i : IsLineStart(s, i) /\ reMatchEnd(re, s, i) # 0)
      gone == reCovered(re, s, cands, 1)
  IN Pick(s, LAMBDA i : i \notin gone)

\* Positions of the marker pairs matched by reBold (text between two bold
\* markers on one line) or reInlineCode (text between two backquotes),
\* scanning the marker positions marks from left to right.
RECURSIVE rePairs(_, _, _)
rePairs(s, marks, stopAtNewline) ==
  IF Len(marks) < 2 THEN {}
  ELSE LET i == marks[1]
           j == marks[2]
           ok == ~stopAtNewline \/ \A k \in (i + 1)..(j - 1) : s[k] # "\n"
       IN IF ok
            THEN {i, j} \cup rePairs(s, SubSeq(marks, 3, Len(marks)), stopAtNewline)
            ELSE rePairs(s, SubSeq(marks, 2, Len(marks)), stopAtNewline)

\* re.ReplaceAllString(s, "$1"): the markers go, the text stays.
reUnwrap(s, mark, stopAtNewline) ==
  LET marks == SelectSeq(Positions(s), LAMBDA i : s[i] = mark)
      gone == rePairs(s, marks, stopAtNewline)
  IN Pick(s, LAMBDA i : i \notin gone)

\* reMultiSpace: two or more blanks or tabs -> " "
reMultiSpaceAll(s) ==
  LET blank(i) == i >= 1 /\ i <= Len(s) /\ s[i] \in {" ", "\t"}
      one == SubSeq([i \in 1..Len(s) |->
                      IF blank(i) /\ blank(i + 1) THEN " " ELSE s[i]],
                    1, Len(s))
  IN Pick(one, LAMBDA i : ~(blank(i) /\ blank(i - 1)))

TrimEach(lines) ==
  SubSeq([k \in 1..Len(lines) |-> TrimSpace(lines[k])], 1, Len(lines))

\* The loop shared by toPlainText (lines 263-279) and sanitizeInsight
\* (lines 317-333): trim every line, keep at most one blank line in a row.
CollapseBlank(lines) ==
  LET tr == TrimEach(lines)
  IN Pick(tr, LAMBDA k : ~(tr[k] = <<>> /\ k > 1 /\ tr[k - 1] = <<>>))

toPlainText(s0) ==
  Let(cleanLLMText(s0), LAMBDA a1 :
  Let(reStrip("reHeading", a1), LAMBDA a2 :
  Let(reUnwrap(a2, "**", TRUE), LAMBDA a3 :
  Let(reUnwrap(a3, "BACKTICK", FALSE), LAMBDA a4 :
  Let(RemoveAll(RemoveAll(RemoveAll(RemoveAll(a4, "**"), "__"), "*"), "_"),
      LAMBDA a8 :
  Let(reStrip("reListNum", a8), LAMBDA a9 :
  Let(reStrip("reListDash", a9), LAMBDA a10 :
  Let(TrimSpace(reMultiSpaceAll(ReplaceCRLF(a10))), LAMBDA a13 :
  Let(CollapseBlank(Split(a13)), LAMBDA out :
  TrimSpace(Join(out)))))))))))

(***************************************************************************)
(* sanitizeInsight, validateInsight and their helpers                      *)
(* (part_009 lines 282-486).  p is the dto.AIPrompt.                       *)
(***************************************************************************)
bad == <<"glyukoz", "gormon", "bioritm", "biolog", "fiziolog", "v krovi",
         "<think>", "</think>", "analysis", "thoughts">>

banned == <<"<think>", "</think>", "analysis", "thoughts">>

required == <<"Energiya", "Vygoranie", "Chto delat zavtra">>

needUnknown ==
  <<"Risk vygoraniya poka neizvesten iz-za nedostatka dannyh", ".">>

ContainsAny(s, needles) ==
  \E k \in 1..Len(needles) : Contains(s, <<needles[k]>>)

\* The lines whose lower-cased text contains no needle.
DropLines(lines, needles) ==
  Pick(lines, LAMBDA k : ~ContainsAny(ToLower(lines[k]), needles))

removeLinesContaining(s, needles) ==
  Let(DropLines(Split(s), needles), LAMBDA out : TrimSpace(Join(out)))

obsDaysOf(p) ==
  IF p.NumObservedDays = 0 THEN p.NumObservedWeekdays ELSE p.NumObservedDays

\* Lines 312-314: with enough data the "little data" lines go.
dropLittleData(t, p) ==
  IF p.NumPoints >= 5 /\ obsDaysOf(p) >= 5
    THEN removeLinesContaining(t, <<"dannyh malo", "vyvod predvaritel">>)
    ELSE t

sanitizeInsight(text, p) ==
  Let(TrimSpace(text), LAMBDA t0 :
  Let(TrimEach(DropLines(Split(t0), bad)), LAMBDA out :
  Let(TrimSpace(Join(out)), LAMBDA t1 :
  Let(ReplaceCRLF(dropLittleData(t1, p)), LAMBDA t3 :
  Let(CollapseBlank(Split(t3)), LAMBDA final :
  TrimSpace(Join(final)))))))

extractBlock(full, startTitle, endTitle) ==
  LET idx == Index(full, <<"\n">> \o startTitle \o <<"\n">>)
      found == idx # 0 \/ HasPrefix(full, startTitle \o <<"\n">>)
      \* first token of the block, 1-based
      start == IF idx # 0 THEN idx + Len(startTitle) + 2 ELSE 1
      rest == SubSeq(full, start, Len(full))
      end == Index(rest, <<"\n">> \o endTitle \o <<"\n">>)
  IN IF ~found THEN <<>>
     ELSE IF TrimSpace(endTitle) = <<>> THEN TrimSpace(rest)
     ELSE IF end = 0 THEN TrimSpace(rest)
     ELSE TrimSpace(SubSeq(rest, 1, end - 1))

\* The trimmed, non-empty members of a list of texts.
NonEmptyTrimmed(lines) ==
  LET tr == TrimEach(lines) IN Pick(tr, LAMBDA k : tr[k] # <<>>)

splitBySentence(s) ==
  LET sp == SelectSeq(Positions(s), LAMBDA i : s[i] \in {".", "!", "?"})
      n == Len(sp)
      parts == SubSeq([k \in 1..(n + 1) |->
                         SubSeq(s, IF k = 1 THEN 1 ELSE sp[k - 1] + 1,
                                   IF k = n + 1 THEN Len(s) ELSE sp[k])],
                      1, n + 1)
  IN NonEmptyTrimmed(parts)

\* A variant of splitActions that never splits a single line by sentence.
splitActions_lines(block) == NonEmptyTrimmed(Split(block))

splitActions(block) ==
  LET out == NonEmptyTrimmed(Split(block)) IN
  IF Len(out) = 1 THEN NonEmptyTrimmed(splitBySentence(out[1])) ELSE out

\* A variant of HasHeader that looks for the title anywhere in the text.
HasHeader_anywhere(t, h) == Contains(t, <<h>>)

HasHeader(t, h) ==
  Contains(t, <<"\n", h, "\n">>) \/ HasPrefix(t, <<h, "\n">>)

\* A variant of IsUnknownLevel that knows the level "unknown" only.
IsUnknownLevel_latin(level) == level = "unknown"

IsUnknownLevel(level) == level = "unknown" \/ level = "nedostatochno dannyh"

\* A variant of validateInsight without the disclaimer rule.
validateInsight_nodisclaimer(text, p) ==
  LET t == TrimSpace(text)
      low == ToLower(t)
      block == extractBlock(t, <<"Chto delat zavtra">>, <<>>)
      actions == splitActions(block)
  IN /\ t # <<>>
     /\ \A k \in 1..Len(required) : HasHeader(t, required[k])
     /\ (p.NumPoints >= 5 /\ obsDaysOf(p) >= 5)
          => ~(Contains(low, <<"dannyh malo">>)
               \/ Contains(low, <<"vyvod predvaritel">>))
     /\ ~ContainsAny(low, banned)
     /\ TrimSpace(block) # <<>>
     /\ Len(actions) = 3
     /\ (TrimSpace(p.UserNotes) # <<>>) => Contains(t, <<"Zametki", ":">>)

validateInsight(text, p) ==
  LET t == TrimSpace(text)
      low == ToLower(t)
      block == extractBlock(t, <<"Chto delat zavtra">>, <<>>)
      actions == splitActions(block)
  IN /\ t # <<>>
     /\ \A k \in 1..Len(required) : HasHeader(t, required[k])
     /\ IF IsUnknownLevel(p.BurnoutLevel)
          THEN Contains(t, needUnknown)
          ELSE ~Contains(t, needUnknown)
     /\ (p.NumPoints >= 5 /\ obsDaysOf(p) >= 5)
          => ~(Contains(low, <<"dannyh malo">>)
               \/ Contains(low, <<"vyvod predvaritel">>))
     /\ ~ContainsAny(low, banned)
     /\ TrimSpace(block) # <<>>
     /\ Len(actions) = 3
     /\ (TrimSpace(p.UserNotes) # <<>>) => Contains(t, <<"Zametki", ":">>)

(***************************************************************************)
(* Responses of the external model the orchestrator is run against.        *)
(***************************************************************************)
L_E == <<"Energiya">>
L_V == <<"Vygoranie">>
L_W == <<"Chto delat zavtra">>
L_S == <<"w", ".">>
L_D == needUnknown
L_N == <<"Zametki", ":", " ", "w", ".">>

\* complete answer with the disclaimer and the notes marker
rGoodUnknown == Join(<<L_E, L_N, <<>>, L_V, L_D, <<>>, L_W, L_S, L_S, L_S>>)
\* complete answer without disclaimer and notes marker, in markdown
rGoodKnownMd ==
  Join(<<<<"#", " ", "Energiya">>, L_S, <<>>, <<>>,
         <<"**", "Vygoranie", "**">>, <<"w", " ", " ", "w", ".">>,
         L_W, <<"-", " ">> \o L_S, <<"1", ".", " ">> \o L_S,
         <<"BULLET", " ">> \o L_S>>)
\* reasoning first, then a complete answer with notes marker, no disclaimer
rThinkGood ==
  <<"<think>", "w", "Energiya", "</think>", "\n">>
  \o Join(<<L_E, L_N, L_V, L_S, L_W, <<"w", ".", " ", "w", "!", " ", "w", "?">>>>)
\* the action section is missing
rNoActions == Join(<<L_E, <<"Dannyh malo", ".">>, L_V, L_S>>)
\* cut in the middle of the action section
rCut == Join(<<L_E, L_N, L_V, L_D, L_W, L_S, <<"w", ":">>>>)
\* one more sentence
rTail == <<" ">> \o L_S \o <<"\n">>
\* only a banned line: nothing is left after sanitizeInsight
rBannedOnly == <<"Gormon", " ", "w", ".">>

RawTexts ==
  {<<>>, rGoodUnknown, rGoodKnownMd, rThinkGood, rNoActions, rCut, rTail,
   rBannedOnly}

Finishes == {"stop", "Length"}

\* What the HTTP exchange of aiChatOnce can end with (part_009:151-173).
HTTPOutcomes ==
  {[kind |-> k, content |-> <<>>, finish |-> ""] :
     k \in {"do_error", "status", "decode", "nochoices"}}
  \cup {[kind |-> "ok", content |-> t, finish |-> f] :
          t \in RawTexts, f \in Finishes}

(***************************************************************************)
(* The prompts Analyze hands to CallInsight (part_013 lines 97-107 and     *)
(* 135-149).                                                               *)
(***************************************************************************)
MinBurnoutPoints == 5

Weekdays == <<"Mon", "Tue", "Wed", "Thu", "Fri", "Sat", "Sun">>

\* the levels of ComputeBurnoutRisk the orchestrator is run with
Levels == {"low", "high"}

Periods == {"week", "month"}

AIPrompts ==
  {[Period |-> per,
    BurnoutLevel |-> lvl,
    NumPoints |-> n,
    NumObservedWeekdays |-> d,
    NumObservedDays |-> d,
    ObservedWeekdaysList |-> SubSeq(Weekdays, 1, d),
    UserNotes |-> notes] :
     per \in Periods,
     n \in {MinBurnoutPoints - 2, MinBurnoutPoints},
     d \in {MinBurnoutPoints - 2, MinBurnoutPoints},
     lvl \in Levels \cup {"nedostatochno dannyh"},
     notes \in {<<>>, <<"note">>}}

\* Analyze lines 97-107: the level is that of ComputeBurnoutRisk from 5
\* points on and "nedostatochno dannyh" below.
AnalyzePrompts ==
  {q \in AIPrompts :
     /\ q.NumObservedDays <= q.NumPoints
     /\ (q.NumPoints >= MinBurnoutPoints) = (q.BurnoutLevel \in Levels)}

(***************************************************************************)
(* AIClient.CallInsight (part_009 lines 52-128) as a process: one action   *)
(* per stretch of code between two external calls.                         *)
(***************************************************************************)
VARIABLES
  fast,        \* c.fast
  p,           \* the dto.AIPrompt argument
  ctxDone,     \* the caller's context has been cancelled or has timed out
  pc,          \* where the execution stands
  text1,       \* the draft
  finish1,     \* finish reason of the first call
  contPrompt,  \* prompt of the continuation call
  rep,         \* prompt of the repair call
  ret,         \* what CallInsight returned
  calls,       \* the external calls issued so far, in order
  results,     \* what each finished call gave: error, cleaned text
  inflight,    \* external calls issued and not yet finished
  cancelledAt, \* pc at the moment the context was cancelled ("" if never)
  vlines,      \* validateInsight on its own: the lines of its text argument
  vres         \* validateInsight on its own: "none", "accepted", "rejected"

insightVars ==
  <<fast, p, ctxDone, pc, text1, finish1, contPrompt, rep, ret, calls,
    results, inflight, cancelledAt>>

validateVars == <<vlines, vres>>

VARIABLES
  tfinish,     \* isTruncated on its own: the finishReason argument
  ttext,       \* isTruncated on its own: the text argument
  tres,        \* isTruncated on its own: "none", "truncated", "complete"
  meas,        \* ComputeBurnoutRisk on its own: what it measures on pts
  brisk,       \* ComputeBurnoutRisk on its own: the dto.BurnoutRisk returned
  llmOn,       \* Analyzer.llm is not nil
  repoOn,      \* Analyzer.repo is not nil
  npts,        \* track points of the user inside the period of the request
  ameas,       \* what the analytics measure on those points
  apc,         \* where the execution of Analyze stands
  areq,        \* the dto.AnalyzeRequest of the execution
  awork,       \* the response Analyze is building
  aout,        \* what Analyze returned
  alog,        \* what the execution did so far, in order
  cache,       \* Repository: cached response of each request key
  history,     \* Repository: row of table analyses of each request key
  last         \* Repository: last analysis of each user and period

truncVars == <<tfinish, ttext, tres>>

riskVars == <<meas, brisk>>

analyzeVars ==
  <<llmOn, repoOn, npts, ameas, apc, areq, awork, aout, alog, cache,
    history, last>>

VARIABLES
  craw,        \* cleanLLMText on its own: the raw response
  cout         \* cleanLLMText on its own: what toPlainText made of it

cleanVars == <<craw, cout>>

VARIABLES
  bpc,         \* the scheduler: "sleep", "loop" or "done"
  busers,      \* the users ListUsersWithTrackPoints returned
  bidx,        \* position in busers of the user being analysed
  bper,        \* position in BatchPeriods of the next Analyze call
  bexpired,    \* the batch context has reached its deadline
  bout         \* outcome of Analyze per user and period

batchVars == <<bpc, busers, bidx, bper, bexpired, bout>>

VARIABLES
  rows,        \* track_points of one user and one local day
  nid,         \* the next value of the bigserial id
  tpc,         \* position of each Track call
  tsel,        \* the row id each Track call selected, 0 for none
  tpoint,      \* the 5-minute bucket of the point of each Track call
  bg,          \* the background analysis each Track call started
  lastrec      \* last_analyses of the user, per period

trackVars == <<rows, nid, tpc, tsel, tpoint, bg, lastrec>>

VARIABLES
  xllm,        \* several Analyze calls: the analyzer has an LLM client
  xpc,         \* position of each call
  xreq,        \* request of each call
  xwork,       \* response each call computed
  xret,        \* response each call returned
  xcache,      \* the response cache, by key
  xhist,       \* the table analyses, by id
  xlast        \* the table last_analyses, by user and period

callsVars == <<xllm, xpc, xreq, xwork, xret, xcache, xhist, xlast>>

VARIABLES
  freq,        \* friend_requests: status by (from_user_id, to_user_id)
  friends,     \* the table friends: pairs (user_id, friend_id)
  fop,         \* the friend request calls under way
  flog,        \* the resolutions of requests that were committed
  fout         \* what the last ...ForViewer call returned

friendVars == <<freq, friends, fop, flog, fout>>

\* The variables of the repository operations and of their callers.
laterVars == <<cleanVars, batchVars, trackVars, callsVars, friendVars>>

\* Values of the variables of a function or operation that is not run.
NoRisk == [Score |-> 0, Level |-> "", Reasons |-> <<>>,
           PredictionHorizonDays |-> 0]

NoMeasures ==
  [avgSleep |-> 0, moodTrend |-> 0, energyVolatility |-> 0,
   modelScore |-> 0, avgStress |-> 0, avgEnergy |-> 0,
   avgSleepQuality |-> 0, percentAlcohol |-> 0, percentWorkout |-> 0]

NoRequest == [UserID |-> 0, Period |-> ""]

NoResponse == [BurnoutRisk |-> NoRisk, ProductivityModel |-> 0,
               LLMInsight |-> "", set |-> FALSE]

NoOutcome == [kind |-> "none", err |-> "", resp |-> NoResponse]

IdleValidate == vlines = <<>> /\ vres = "none"

IdleTruncated == tfinish = "" /\ ttext = <<>> /\ tres = "none"

IdleRisk == meas = NoMeasures /\ brisk = NoRisk

IdleClean == craw = <<>> /\ cout = <<"none">>

IdleBatch ==
  /\ bpc = "off" /\ busers = <<>> /\ bidx = 0 /\ bper = 0
  /\ bexpired = FALSE /\ bout = <<>>

IdleTrack ==
  /\ rows = {} /\ nid = 0 /\ tpc = <<>> /\ tsel = <<>> /\ tpoint = <<>>
  /\ bg = <<>> /\ lastrec = <<>>

IdleCalls ==
  /\ xllm = FALSE /\ xpc = <<>> /\ xreq = <<>> /\ xwork = <<>>
  /\ xret = <<>> /\ xcache = <<>> /\ xhist = <<>> /\ xlast = <<>>

IdleFriends ==
  /\ freq = <<>> /\ friends = {} /\ fop = <<>> /\ flog = {} /\ fout = <<>>

IdleLater ==
  IdleClean /\ IdleBatch /\ IdleTrack /\ IdleCalls /\ IdleFriends

IdleAnalyze ==
  /\ llmOn = FALSE
  /\ repoOn = FALSE
  /\ npts = 0
  /\ ameas = NoMeasures
  /\ apc = "off"
  /\ areq = NoRequest
  /\ awork = NoResponse
  /\ aout = NoOutcome
  /\ alog = <<>>
  /\ cache = <<>>
  /\ history = <<>>
  /\ last = <<>>

maxTokens == 1200

SystemPromptRU == "SystemPromptRU"
SystemPromptRUPeriod == "SystemPromptRUPeriod"

IsPeriodPrompt(q) == q.Period = "month" \/ q.Period = "all"

systemOf(q) == IF IsPeriodPrompt(q) THEN SystemPromptRUPeriod ELSE SystemPromptRU

NoPrompt ==
  [tmpl |-> "", NumPoints |-> 0, NumObservedDays |-> 0,
   ObservedWeekdaysList |-> <<>>, hasList |-> FALSE, BurnoutLevel |-> "",
   text |-> <<>>]

\* fmt.Sprintf(hepler.ContinuePromptTmplRU, text1), line 80
ContinuePrompt(text) == [NoPrompt EXCEPT !.tmpl = "ContinuePromptTmplRU", !.text = text]

\* A variant of RepairPrompt that embeds the draft only.
RepairPrompt_bare(q, text) ==
  [NoPrompt EXCEPT !.tmpl = "RepairPromptTmplRU", !.text = text]

\* The two fmt.Sprintf of lines 94-112.
RepairPrompt(q, text) ==
  IF IsPeriodPrompt(q)
    THEN [tmpl |-> "RepairPromptTmplRUPeriod",
          NumPoints |-> q.NumPoints,
          NumObservedDays |-> q.NumObservedDays,
          ObservedWeekdaysList |-> <<>>,
          hasList |-> FALSE,
          BurnoutLevel |-> q.BurnoutLevel,
          text |-> text]
    ELSE [tmpl |-> "RepairPromptTmplRU",
          NumPoints |-> q.NumPoints,
          NumObservedDays |-> q.NumObservedDays,
          ObservedWeekdaysList |-> q.ObservedWeekdaysList,
          hasList |-> TRUE,
          BurnoutLevel |-> q.BurnoutLevel,
          text |-> text]

\* aiChatOnce (lines 130-174) on the outcome h of the HTTP exchange; a
\* context that is done makes httpClient.Do fail.
aiChatOnce(h, done) ==
  IF done THEN [text |-> <<>>, finishReason |-> "", err |-> "context canceled"]
  ELSE IF h.kind = "do_error"
    THEN [text |-> <<>>, finishReason |-> "", err |-> "transport error"]
  ELSE IF h.kind = "status"
    THEN [text |-> <<>>, finishReason |-> "", err |-> "ai status"]
  ELSE IF h.kind = "decode"
    THEN [text |-> <<>>, finishReason |-> "", err |-> "ai decode error"]
  ELSE IF h.kind = "nochoices"
    THEN [text |-> <<>>, finishReason |-> "",
          err |-> "ai empty response (no choices)"]
  ELSE [text |-> TrimSpace(h.content), finishReason |-> h.finish, err |-> ""]

NoReturn == [kind |-> "none", text |-> <<>>, err |-> "", from |-> "none"]

ReturnError(e) == [kind |-> "error", text |-> <<>>, err |-> e, from |-> "none"]

ReturnText(t, src) == [kind |-> "text", text |-> t, err |-> "", from |-> src]

\* A variant of ReturnDraft that returns the draft even when it is empty.
ReturnDraft_always(t) == ReturnText(t, "draft")

\* Lines 124-127 (and 73-76 in fast mode).
ReturnDraft(t) ==
  IF TrimSpace(t) = <<>>
    THEN ReturnError("ai empty content after cleaning")
    ELSE ReturnText(t, "draft")

Call(stage, system, tokens) ==
  [stage |-> stage, system |-> system, maxTokens |-> tokens]

Result(stage, r, clean) == [stage |-> stage, err |-> r.err, clean |-> clean]

InitInsight ==
  /\ fast \in BOOLEAN
  /\ p \in AnalyzePrompts
  /\ vlines = <<>>
  /\ vres = "none"
  /\ IdleTruncated
  /\ IdleRisk
  /\ IdleAnalyze
  /\ ctxDone = FALSE
  /\ pc = "start"
  /\ text1 = <<>>
  /\ finish1 = ""
  /\ contPrompt = NoPrompt
  /\ rep = NoPrompt
  /\ ret = NoReturn
  /\ calls = <<>>
  /\ results = <<>>
  /\ inflight = 0
  /\ cancelledAt = ""
  /\ IdleLater

\* A variant of CallFirst that sends the first request twice at once.
CallFirst_twice ==
  /\ pc = "start"
  /\ calls' = calls \o <<Call("first", systemOf(p), maxTokens),
                          Call("first", systemOf(p), maxTokens)>>
  /\ inflight' = inflight + 2
  /\ pc' = "first"
  /\ UNCHANGED <<fast, p, ctxDone, text1, finish1, contPrompt, rep, ret,
                 results, cancelledAt>>
  /\ UNCHANGED <<validateVars, truncVars, riskVars, analyzeVars,
                 laterVars>>

\* Lines 52-65: the first call is sent.
CallFirst ==
  /\ pc = "start"
  /\ calls' = Append(calls, Call("first", systemOf(p), maxTokens))
  /\ inflight' = inflight + 1
  /\ pc' = "first"
  /\ UNCHANGED <<fast, p, ctxDone, text1, finish1, contPrompt, rep, ret,
                 results, cancelledAt>>
  /\ UNCHANGED <<validateVars, truncVars, riskVars, analyzeVars,
                 laterVars>>

\* A variant of AfterFirst that goes on with an empty draft when the
\* first call fails.
AfterFirst_swallow(h) ==
  /\ pc = "first"
  /\ LET r == aiChatOnce(h, ctxDone)
         accept(clean) ==
           /\ text1' = clean
           /\ finish1' = r.finishReason
           /\ results' = Append(results, Result("first", r, clean))
           /\ IF fast
                THEN ret' = ReturnDraft(clean) /\ pc' = "done"
                ELSE /\ ret' = ret
                     /\ pc' = IF isTruncated(r.finishReason, clean)
                                THEN "continue" ELSE "validate"
     IN /\ inflight' = inflight - 1
        /\ IF r.err # ""
             THEN /\ ret' = ret
                  /\ pc' = "validate"
                  /\ results' = Append(results, Result("first", r, <<>>))
                  /\ UNCHANGED <<text1, finish1>>
             ELSE accept(sanitizeInsight(toPlainText(r.text), p))
  /\ UNCHANGED <<fast, p, ctxDone, contPrompt, rep, calls, cancelledAt>>
  /\ UNCHANGED <<validateVars, truncVars, riskVars, analyzeVars,
                 laterVars>>

\* Lines 65-79: the first call returns.
AfterFirst(h) ==
  /\ pc = "first"
  /\ LET r == aiChatOnce(h, ctxDone)
         accept(clean) ==
           /\ text1' = clean
           /\ finish1' = r.finishReason
           /\ results' = Append(results, Result("first", r, clean))
           /\ IF fast
                THEN ret' = ReturnDraft(clean) /\ pc' = "done"
                ELSE /\ ret' = ret
                     /\ pc' = IF isTruncated(r.finishReason, clean)
                                THEN "continue" ELSE "validate"
     IN /\ inflight' = inflight - 1
        /\ IF r.err # ""
             THEN /\ ret' = ReturnError(r.err)
                  /\ pc' = "done"
                  /\ results' = Append(results, Result("first", r, <<>>))
                  /\ UNCHANGED <<text1, finish1>>
             ELSE accept(sanitizeInsight(toPlainText(r.text), p))
  /\ UNCHANGED <<fast, p, ctxDone, contPrompt, rep, calls, cancelledAt>>
  /\ UNCHANGED <<validateVars, truncVars, riskVars, analyzeVars,
                 laterVars>>

\* Lines 80-82: the continuation call is sent.
CallContinuation ==
  /\ pc = "continue"
  /\ contPrompt' = ContinuePrompt(text1)
  /\ calls' = Append(calls, Call("continuation", systemOf(p), 900))
  /\ inflight' = inflight + 1
  /\ pc' = "continuation"
  /\ UNCHANGED <<fast, p, ctxDone, text1, finish1, rep, ret, results,
                 cancelledAt>>
  /\ UNCHANGED <<validateVars, truncVars, riskVars, analyzeVars,
                 laterVars>>

\* A variant of AfterContinuation that returns the error of a failed
\* continuation call.
AfterContinuation_propagate(h) ==
  /\ pc = "continuation"
  /\ LET r == aiChatOnce(h, ctxDone)
         merge(text2) ==
           LET merged == TrimSpace(text1 \o <<"\n">> \o text2)
           IN /\ text1' = IF merged # <<>> THEN merged ELSE text1
              /\ results' = Append(results, Result("continuation", r, text2))
              /\ ret' = ret
              /\ pc' = "validate"
     IN /\ inflight' = inflight - 1
        /\ IF r.err = ""
             THEN merge(sanitizeInsight(toPlainText(r.text), p))
             ELSE /\ text1' = text1
                  /\ results' = Append(results, Result("continuation", r, <<>>))
                  /\ ret' = ReturnError(r.err)
                  /\ pc' = "done"
  /\ UNCHANGED <<fast, p, ctxDone, finish1, contPrompt, rep, calls,
                 cancelledAt>>
  /\ UNCHANGED <<validateVars, truncVars, riskVars, analyzeVars,
                 laterVars>>

\* Lines 82-91: the continuation call returns.
AfterContinuation(h) ==
  /\ pc = "continuation"
  /\ LET r == aiChatOnce(h, ctxDone)
         merge(text2) ==
           LET merged == TrimSpace(text1 \o <<"\n">> \o text2)
           IN /\ text1' = IF merged # <<>> THEN merged ELSE text1
              /\ results' = Append(results, Result("continuation", r, text2))
     IN /\ inflight' = inflight - 1
        /\ IF r.err = ""
             THEN merge(sanitizeInsight(toPlainText(r.text), p))
             ELSE /\ text1' = text1
                  /\ results' = Append(results, Result("continuation", r, <<>>))
  /\ pc' = "validate"
  /\ UNCHANGED <<fast, p, ctxDone, finish1, contPrompt, rep, ret, calls,
                 cancelledAt>>
  /\ UNCHANGED <<validateVars, truncVars, riskVars, analyzeVars,
                 laterVars>>

\* A variant of ValidateDraft that asks for a repair whatever the draft.
ValidateDraft_always ==
  /\ pc = "validate"
  /\ rep' = RepairPrompt(p, text1)
  /\ calls' = Append(calls, Call("repair", systemOf(p), 1200))
  /\ inflight' = inflight + 1
  /\ pc' = "repair"
  /\ UNCHANGED <<fast, p, ctxDone, text1, finish1, contPrompt, results,
                 cancelledAt, ret>>
  /\ UNCHANGED <<validateVars, truncVars, riskVars, analyzeVars,
                 laterVars>>

\* Lines 93-114 and 124-127: the draft is validated; the repair call is
\* sent if it is rejected, the draft is returned otherwise.
ValidateDraft ==
  /\ pc = "validate"
  /\ IF ~validateInsight(text1, p)
       THEN /\ rep' = RepairPrompt(p, text1)
            /\ calls' = Append(calls, Call("repair", systemOf(p), 1200))
            /\ inflight' = inflight + 1
            /\ pc' = "repair"
            /\ ret' = ret
       ELSE /\ ret' = ReturnDraft(text1)
            /\ pc' = "done"
            /\ UNCHANGED <<rep, calls, inflight>>
  /\ UNCHANGED <<fast, p, ctxDone, text1, finish1, contPrompt, results,
                 cancelledAt>>
  /\ UNCHANGED <<validateVars, truncVars, riskVars, analyzeVars,
                 laterVars>>

\* A variant of AfterRepair that returns the repaired text unvalidated.
AfterRepair_unchecked(h) ==
  /\ pc = "repair"
  /\ LET r == aiChatOnce(h, ctxDone)
         take(fixed) ==
           /\ results' = Append(results, Result("repair", r, fixed))
           /\ ret' = IF fixed # <<>>
                       THEN ReturnText(fixed, "repair")
                       ELSE ReturnDraft(text1)
     IN /\ inflight' = inflight - 1
        /\ IF r.err = ""
             THEN take(sanitizeInsight(toPlainText(r.text), p))
             ELSE /\ results' = Append(results, Result("repair", r, <<>>))
                  /\ ret' = ReturnDraft(text1)
  /\ pc' = "done"
  /\ UNCHANGED <<fast, p, ctxDone, text1, finish1, contPrompt, rep, calls,
                 cancelledAt>>
  /\ UNCHANGED <<validateVars, truncVars, riskVars, analyzeVars,
                 laterVars>>

\* Lines 114-127: the repair call returns.
AfterRepair(h) ==
  /\ pc = "repair"
  /\ LET r == aiChatOnce(h, ctxDone)
         check(fixed) ==
           /\ results' = Append(results, Result("repair", r, fixed))
           /\ ret' = IF validateInsight(fixed, p)
                       THEN ReturnText(fixed, "repair")
                       ELSE ReturnDraft(text1)
     IN /\ inflight' = inflight - 1
        /\ IF r.err = ""
             THEN check(sanitizeInsight(toPlainText(r.text), p))
             ELSE /\ results' = Append(results, Result("repair", r, <<>>))
                  /\ ret' = ReturnDraft(text1)
  /\ pc' = "done"
  /\ UNCHANGED <<fast, p, ctxDone, text1, finish1, contPrompt, rep, calls,
                 cancelledAt>>
  /\ UNCHANGED <<validateVars, truncVars, riskVars, analyzeVars,
                 laterVars>>

\* The caller cancels the context, or its deadline passes, while
\* CallInsight runs (part_013:270, the contexts of the handlers).
CancelCtx ==
  /\ pc # "done"
  /\ ~ctxDone
  /\ ctxDone' = TRUE
  /\ cancelledAt' = pc
  /\ UNCHANGED <<fast, p, pc, text1, finish1, contPrompt, rep, ret, calls,
                 results, inflight>>
  /\ UNCHANGED <<validateVars, truncVars, riskVars, analyzeVars,
                 laterVars>>

NextInsight ==
  \/ CallFirst
  \/ \E h \in HTTPOutcomes : AfterFirst(h)
  \/ CallContinuation
  \/ \E h \in HTTPOutcomes : AfterContinuation(h)
  \/ ValidateDraft
  \/ \E h \in HTTPOutcomes : AfterRepair(h)
  \/ CancelCtx

vars ==
  <<insightVars, validateVars, truncVars, riskVars, analyzeVars, laterVars>>

Init == InitInsight

Next == NextInsight

Spec == Init /\ [][Next]_vars

(***************************************************************************)
(* validateInsight (part_009 lines 355-416) on its own: it is applied to   *)
(* every text of at most MaxLines lines drawn from LineKinds and to every  *)
(* text of SectionTexts, under every prompt of ValidatePrompts.            *)
(***************************************************************************)
MaxLines == 4

LineKinds == {"E", "V", "W", "Ebad", "A3", "S", "D", "N"}

LineOf(k) ==
  CASE k = "E" -> L_E
    [] k = "V" -> L_V
    [] k = "W" -> L_W
    [] k = "Ebad" -> <<"Energiya", " ", "w">>
    [] k = "A3" -> <<"w", ".", " ", "w", "!", " ", "w", "?">>
    [] k = "S" -> L_S
    [] k = "D" -> L_D
    [] k = "N" -> L_N
    [] k = "LD" -> <<"Dannyh malo", ".">>
    [] k = "R" -> <<"Risk", " ", "nizkiy", ".">>
    [] k = "B" -> <<"Analysis", " ", "w", ".">>

TextOf(ks) == Join(SubSeq([i \in 1..Len(ks) |-> LineOf(ks[i])], 1, Len(ks)))

LineSeqs == UNION {[1..n -> LineKinds] : n \in 0..MaxLines}

\* Texts of three sections: the three titles in any order, each followed
\* by the lines of its section.
SectionOrders ==
  {o \in [1..3 -> {"E", "V", "W"}] : \A i, j \in 1..3 : o[i] = o[j] => i = j}

SectionBodies == {<<"S">>, <<"D">>, <<"N">>, <<"LD">>, <<"R">>, <<"B">>}

ActionBodies == {<<"S", "S", "S">>, <<"A3">>, <<"S", "S">>, <<"S">>}

BodiesOf(h) == IF h = "W" THEN ActionBodies ELSE SectionBodies

SectionTexts ==
  UNION {{<<o[1]>> \o b1 \o <<o[2]>> \o b2 \o <<o[3]>> \o b3 :
            b1 \in BodiesOf(o[1]), b2 \in BodiesOf(o[2]),
            b3 \in BodiesOf(o[3])} : o \in SectionOrders}

ValidateLevels == {"low", "medium", "high", "unknown", "nedostatochno dannyh"}

ValidatePrompts ==
  {[Period |-> "week",
    BurnoutLevel |-> lvl,
    NumPoints |-> n,
    NumObservedWeekdays |-> n,
    NumObservedDays |-> n,
    ObservedWeekdaysList |-> SubSeq(Weekdays, 1, n),
    UserNotes |-> notes] :
     n \in {MinBurnoutPoints - 2, MinBurnoutPoints},
     lvl \in ValidateLevels,
     notes \in {<<>>, <<"note">>}}

InitValidate ==
  /\ vlines \in LineSeqs \cup SectionTexts
  /\ vres = "none"
  /\ p \in ValidatePrompts
  /\ fast = FALSE
  /\ ctxDone = FALSE
  /\ pc = "done"
  /\ text1 = <<>>
  /\ finish1 = ""
  /\ contPrompt = NoPrompt
  /\ rep = NoPrompt
  /\ ret = NoReturn
  /\ calls = <<>>
  /\ results = <<>>
  /\ inflight = 0
  /\ cancelledAt = ""
  /\ IdleTruncated
  /\ IdleRisk
  /\ IdleAnalyze
  /\ IdleLater

Validate ==
  /\ vres = "none"
  /\ vres' = IF validateInsight(TextOf(vlines), p)
               THEN "accepted" ELSE "rejected"
  /\ UNCHANGED <<vlines, insightVars, truncVars, riskVars, analyzeVars,
                 laterVars>>

NextValidate == Validate

SpecValidate == InitValidate /\ [][NextValidate]_vars

(***************************************************************************)
(* isTruncated (part_009 lines 176-193) on its own: it is applied to every *)
(* finish reason of TruncFinishes and every text of at most MaxTextLen     *)
(* tokens of TruncTokens.                                                  *)
(***************************************************************************)
MaxTextLen == 3

TruncFinishes == {"", "stop", "length", "Length", "LENGTH"}

TruncTokens == {"w", ".", ":", "-", "EN_DASH", "EM_DASH", " ", "\n"}

TruncTexts == UNION {[1..n -> TruncTokens] : n \in 0..MaxTextLen}

\* The variables of CallInsight when it is not run.
IdleInsight ==
  /\ fast = FALSE
  /\ p = CHOOSE q \in ValidatePrompts : q.BurnoutLevel = "low"
                                        /\ q.NumPoints = MinBurnoutPoints
                                        /\ q.UserNotes = <<>>
  /\ ctxDone = FALSE
  /\ pc = "done"
  /\ text1 = <<>>
  /\ finish1 = ""
  /\ contPrompt = NoPrompt
  /\ rep = NoPrompt
  /\ ret = NoReturn
  /\ calls = <<>>
  /\ results = <<>>
  /\ inflight = 0
  /\ cancelledAt = ""

InitTruncated ==
  /\ tfinish \in TruncFinishes
  /\ ttext \in TruncTexts
  /\ tres = "none"
  /\ IdleInsight
  /\ IdleValidate
  /\ IdleRisk
  /\ IdleAnalyze
  /\ IdleLater

Classify ==
  /\ tres = "none"
  /\ tres' = IF isTruncated(tfinish, ttext) THEN "truncated" ELSE "complete"
  /\ UNCHANGED <<tfinish, ttext, insightVars, validateVars, riskVars,
                 analyzeVars,
                 laterVars>>

NextTruncated == Classify

SpecTruncated == InitTruncated /\ [][NextTruncated]_vars

(***************************************************************************)
(* ComputeBurnoutRisk (part_002 lines 88-158).  Its argument m holds what  *)
(* lines 91-99 measure on the track points, as whole numbers: hours, the   *)
(* 0-10 scales and the volatility in tenths, the mood trend in hundredths, *)
(* the productivity score and the percentages in units.                    *)
(***************************************************************************)
sleepDebt(m) == m.avgSleep < 66

moodDown(m) == m.moodTrend < -15

energyVolatile(m) == m.energyVolatility > 180

lowProd(m) == m.modelScore < 45

highStress(m) == m.avgStress > 65

lowSelfEnergy(m) == m.avgEnergy < 45

poorSleepQuality(m) == m.avgSleepQuality < 60

alcoholOften(m) == m.percentAlcohol > 30

workoutRare(m) == m.percentWorkout < 20

clamp(x, a, b) == IF x < a THEN a ELSE IF x > b THEN b ELSE x

\* A variant of burnoutScore without the clamp of line 139.
burnoutScore_unclamped(m) ==
  (IF sleepDebt(m) THEN 25 ELSE 0) + (IF moodDown(m) THEN 20 ELSE 0)
  + (IF energyVolatile(m) THEN 15 ELSE 0) + (IF lowProd(m) THEN 20 ELSE 0)
  + (IF highStress(m) THEN 20 ELSE 0) + (IF lowSelfEnergy(m) THEN 15 ELSE 0)
  + (IF poorSleepQuality(m) THEN 10 ELSE 0)
  + (IF alcoholOften(m) THEN 10 ELSE 0) + (IF workoutRare(m) THEN 5 ELSE 0)

\* Lines 101-139: the variable score.
burnoutScore(m) ==
  clamp((IF sleepDebt(m) THEN 25 ELSE 0) + (IF moodDown(m) THEN 20 ELSE 0)
        + (IF energyVolatile(m) THEN 15 ELSE 0)
        + (IF lowProd(m) THEN 20 ELSE 0) + (IF highStress(m) THEN 20 ELSE 0)
        + (IF lowSelfEnergy(m) THEN 15 ELSE 0)
        + (IF poorSleepQuality(m) THEN 10 ELSE 0)
        + (IF alcoholOften(m) THEN 10 ELSE 0)
        + (IF workoutRare(m) THEN 5 ELSE 0), 0, 100)

\* Lines 140-146: the variable level.
burnoutLevel(score) ==
  IF score >= 70 THEN "high" ELSE IF score >= 40 THEN "medium" ELSE "low"

\* Lines 89-137: the reasons appended rule by rule.
firedReasons(m) ==
  (IF sleepDebt(m) THEN <<"Nakoplenie nedosypa">> ELSE <<>>)
  \o (IF moodDown(m) THEN <<"Nishodyaschiy trend nastroeniya">> ELSE <<>>)
  \o (IF energyVolatile(m) THEN <<"Vysokaya volatilnost energii">> ELSE <<>>)
  \o (IF lowProd(m) THEN <<"Nizkiy pokazatel produktivnosti">> ELSE <<>>)
  \o (IF highStress(m) THEN <<"Vysokiy uroven stressa">> ELSE <<>>)
  \o (IF lowSelfEnergy(m) THEN <<"Nizkaya samootsenka energii">> ELSE <<>>)
  \o (IF poorSleepQuality(m) THEN <<"Nizkoe kachestvo sna">> ELSE <<>>)
  \o (IF alcoholOften(m) THEN <<"Chastye otmetki alkogolya">> ELSE <<>>)
  \o (IF workoutRare(m) THEN <<"Nizkaya regulyarnost trenirovok">> ELSE <<>>)

\* A variant of burnoutReasons without lines 148-150.
burnoutReasons_bare(m) == firedReasons(m)

\* Lines 89-150: the variable reasons.
burnoutReasons(m) ==
  IF Len(firedReasons(m)) = 0
    THEN <<"Yavnyh triggerov vygoraniya ne naydeno">>
    ELSE firedReasons(m)

\* round2 of line 153 leaves the whole number of points as it is.
ComputeBurnoutRisk(m) ==
  [Score |-> burnoutScore(m),
   Level |-> burnoutLevel(burnoutScore(m)),
   Reasons |-> burnoutReasons(m),
   PredictionHorizonDays |-> 14]

\* Measures on both sides of each threshold of lines 91-99.
Measures ==
  [avgSleep : {65, 66, 70}, moodTrend : {-16, -15, 0},
   energyVolatility : {180, 181}, modelScore : {44, 45},
   avgStress : {65, 66}, avgEnergy : {44, 45},
   avgSleepQuality : {59, 60}, percentAlcohol : {30, 31},
   percentWorkout : {19, 20}]

InitRisk ==
  /\ meas \in Measures
  /\ brisk = NoRisk
  /\ IdleInsight
  /\ IdleValidate
  /\ IdleTruncated
  /\ IdleAnalyze
  /\ IdleLater

Compute ==
  /\ brisk = NoRisk
  /\ brisk' = ComputeBurnoutRisk(meas)
  /\ UNCHANGED <<meas, insightVars, validateVars, truncVars, analyzeVars,
                 laterVars>>

NextRisk == Compute

SpecRisk == InitRisk /\ [][NextRisk]_vars

(***************************************************************************)
(* Analyzer.Analyze and storeResult (part_013 lines 54-200 and 319-344),   *)
(* one execution, against a repository whose response cache holds what     *)
(* earlier executions left there.                                          *)
(***************************************************************************)
Users == {0, 1, 2}

AnalyzePeriods == {"week", ""}

Requests == [UserID : Users, Period : AnalyzePeriods]

\* buildCacheKey: the hash of the JSON form of the request, which leaves
\* UserID out (dto.go line 60).
buildCacheKey(req) == [period |-> req.Period]

CacheKeys == {buildCacheKey(req) : req \in Requests}

LastKeys == {<<u, per>> : u \in Users \ {0}, per \in {"week", "all"}}

\* the sizes of the sample set GetTrackPoints returns
SampleCounts == {0, 1, MinBurnoutPoints - 1, MinBurnoutPoints}

\* no burnout rule holds, all nine hold
AnalyzeMeasures ==
  {[avgSleep |-> 70, moodTrend |-> 0, energyVolatility |-> 180,
    modelScore |-> 45, avgStress |-> 65, avgEnergy |-> 45,
    avgSleepQuality |-> 60, percentAlcohol |-> 30, percentWorkout |-> 20],
   [avgSleep |-> 65, moodTrend |-> -16, energyVolatility |-> 181,
    modelScore |-> 44, avgStress |-> 66, avgEnergy |-> 44,
    avgSleepQuality |-> 59, percentAlcohol |-> 31, percentWorkout |-> 19]}

\* the errors CallInsight returns
InsightErrors == {"ai status 500", "ai empty content after cleaning"}

\* A variant of riskOf that always evaluates the burnout rules.
riskOf_always(n, m) == ComputeBurnoutRisk(m)

\* Lines 97-107.
riskOf(n, m) ==
  IF n >= 5
    THEN ComputeBurnoutRisk(m)
    ELSE [Score |-> 0,
          Level |-> "nedostatochno dannyh",
          Reasons |-> <<"Nedostatochno dannyh dlya prognoza vygoraniya">>,
          PredictionHorizonDays |-> 14]

\* Lines 93-133 and 188-195: the response before the narrative is known.
scored(n, m) ==
  [BurnoutRisk |-> riskOf(n, m), ProductivityModel |-> m.modelScore,
   LLMInsight |-> "LLM disabled", set |-> TRUE]

\* What storeResult puts in the cache (lines 333-335).
cacheResp(resp) == [resp EXCEPT !.LLMInsight = ""]

CachedResponses ==
  {cacheResp(scored(n, m)) : n \in SampleCounts \ {0}, m \in AnalyzeMeasures}

ReturnErr(e) == [kind |-> "error", err |-> e, resp |-> NoResponse]

ReturnResp(r) == [kind |-> "resp", err |-> "", resp |-> r]

InitAnalyze ==
  /\ llmOn \in BOOLEAN
  /\ repoOn \in BOOLEAN
  /\ cache \in [CacheKeys -> CachedResponses \cup {NoResponse}]
  /\ history = [k \in CacheKeys |-> NoResponse]
  /\ last = [k \in LastKeys |-> NoResponse]
  /\ npts = 0
  /\ ameas = NoMeasures
  /\ apc = "start"
  /\ areq = NoRequest
  /\ awork = NoResponse
  /\ aout = NoOutcome
  /\ alog = <<>>
  /\ IdleInsight
  /\ IdleValidate
  /\ IdleTruncated
  /\ IdleRisk
  /\ IdleLater

\* A variant of AnalyzeLoad without the minimum of lines 86-88.
AnalyzeLoad_nominimum(req, n, m, cacheOK, loadOK) ==
  /\ apc = "start"
  /\ areq' = req
  /\ LET hit == repoOn /\ ~llmOn /\ cacheOK
                /\ cache[buildCacheKey(req)] # NoResponse
         loaded == req.UserID > 0 /\ ~hit /\ repoOn /\ loadOK
     IN /\ aout' = IF req.UserID <= 0 THEN ReturnErr("user id is required")
                   ELSE IF hit THEN ReturnResp(cache[buildCacheKey(req)])
                   ELSE IF ~repoOn THEN ReturnErr("repository not configured")
                   ELSE IF ~loadOK THEN ReturnErr("track points query")
                   ELSE NoOutcome
        /\ alog' = IF req.UserID <= 0 \/ ~repoOn THEN <<>>
                   ELSE IF hit THEN <<"cache hit">>
                   ELSE IF ~loadOK THEN <<"load error">>
                   ELSE <<"load", "score">>
        /\ npts' = IF loaded THEN n ELSE 0
        /\ ameas' = IF loaded THEN m ELSE NoMeasures
        /\ awork' = IF loaded THEN scored(n, m) ELSE NoResponse
        /\ apc' = IF loaded THEN "insight" ELSE "done"
  /\ UNCHANGED <<llmOn, repoOn, cache, history, last>>
  /\ UNCHANGED <<insightVars, validateVars, truncVars, riskVars, laterVars>>

\* Lines 55-131: the request is checked, the cache is looked up when no
\* client is configured, the track points are loaded with GetTrackPoints
\* (n points measuring m, or an error) and scored.
AnalyzeLoad(req, n, m, cacheOK, loadOK) ==
  /\ apc = "start"
  /\ areq' = req
  /\ LET hit == repoOn /\ ~llmOn /\ cacheOK
                /\ cache[buildCacheKey(req)] # NoResponse
         loaded == req.UserID > 0 /\ ~hit /\ repoOn /\ loadOK
     IN /\ aout' = IF req.UserID <= 0 THEN ReturnErr("user id is required")
                   ELSE IF hit THEN ReturnResp(cache[buildCacheKey(req)])
                   ELSE IF ~repoOn THEN ReturnErr("repository not configured")
                   ELSE IF ~loadOK THEN ReturnErr("track points query")
                   ELSE IF n < 1
                     THEN ReturnErr("need at least 1 point for analytics")
                   ELSE NoOutcome
        /\ alog' = IF req.UserID <= 0 \/ ~repoOn THEN <<>>
                   ELSE IF hit THEN <<"cache hit">>
                   ELSE IF ~loadOK THEN <<"load error">>
                   ELSE IF n < 1 THEN <<"load">>
                   ELSE <<"load", "score">>
        /\ npts' = IF loaded THEN n ELSE 0
        /\ ameas' = IF loaded /\ n >= 1 THEN m ELSE NoMeasures
        /\ awork' = IF loaded /\ n >= 1 THEN scored(n, m) ELSE NoResponse
        /\ apc' = IF loaded /\ n >= 1 THEN "insight" ELSE "done"
  /\ UNCHANGED <<llmOn, repoOn, cache, history, last>>
  /\ UNCHANGED <<insightVars, validateVars, truncVars, riskVars, laterVars>>

\* A variant of AnalyzeInsight that returns the error of CallInsight.
AnalyzeInsight_failing(e) ==
  /\ apc = "insight"
  /\ IF llmOn /\ e # ""
       THEN /\ aout' = ReturnErr(e)
            /\ alog' = alog \o <<"llm", "llm error">>
            /\ apc' = "done"
            /\ UNCHANGED awork
       ELSE /\ awork' = [awork EXCEPT !.LLMInsight =
                           IF llmOn THEN "insight" ELSE "LLM disabled"]
            /\ alog' = IF llmOn THEN Append(alog, "llm") ELSE alog
            /\ apc' = "store"
            /\ UNCHANGED aout
  /\ UNCHANGED <<llmOn, repoOn, npts, ameas, areq, cache, history, last>>
  /\ UNCHANGED <<insightVars, validateVars, truncVars, riskVars, laterVars>>

\* Lines 133-170: CallInsight is called when a client is configured; it
\* returns a text (e = "") or the error e.
AnalyzeInsight(e) ==
  /\ apc = "insight"
  /\ awork' = [awork EXCEPT !.LLMInsight =
                 IF ~llmOn THEN "LLM disabled"
                 ELSE IF e # "" THEN "LLM insight unavailable: " \o e
                 ELSE "insight"]
  /\ alog' = IF ~llmOn THEN alog
             ELSE IF e # "" THEN alog \o <<"llm", "llm error">>
             ELSE Append(alog, "llm")
  /\ apc' = "store"
  /\ UNCHANGED <<llmOn, repoOn, npts, ameas, areq, aout, cache, history, last>>
  /\ UNCHANGED <<insightVars, validateVars, truncVars, riskVars, laterVars>>

\* Lines 172-199 and storeResult: the three writes, each of which may fail
\* without effect, and the return of the response.
AnalyzeStore(cacheOK, historyOK, lastOK) ==
  /\ apc = "store"
  /\ cache' = IF cacheOK
                THEN [cache EXCEPT ![buildCacheKey(areq)] = cacheResp(awork)]
                ELSE cache
  /\ history' = IF historyOK
                  THEN [history EXCEPT ![buildCacheKey(areq)] = awork]
                  ELSE history
  /\ last' = IF lastOK
               THEN [last EXCEPT
                       ![<<areq.UserID,
                           IF areq.Period = "" THEN "all" ELSE areq.Period>>]
                         = awork]
               ELSE last
  /\ alog' = alog \o <<"cache", "history", "last">>
  /\ aout' = ReturnResp(awork)
  /\ apc' = "done"
  /\ UNCHANGED <<llmOn, repoOn, npts, ameas, areq, awork>>
  /\ UNCHANGED <<insightVars, validateVars, truncVars, riskVars, laterVars>>

NextAnalyze ==
  \/ \E req \in Requests, n \in SampleCounts, m \in AnalyzeMeasures,
        cacheOK \in BOOLEAN, loadOK \in BOOLEAN :
       AnalyzeLoad(req, n, m, cacheOK, loadOK)
  \/ \E e \in InsightErrors \cup {""} : AnalyzeInsight(e)
  \/ \E cacheOK \in BOOLEAN, historyOK \in BOOLEAN, lastOK \in BOOLEAN :
       AnalyzeStore(cacheOK, historyOK, lastOK)

SpecAnalyze == InitAnalyze /\ [][NextAnalyze]_vars

(***************************************************************************)
(* Properties of CallInsight.                                              *)
(***************************************************************************)
HasCall(stage) == \E k \in 1..Len(calls) : calls[k].stage = stage

HasResult(stage) == \E k \in 1..Len(results) : results[k].stage = stage

ResultOf(stage) ==
  results[CHOOSE k \in 1..Len(results) : results[k].stage = stage]

Failed(stage) == HasResult(stage) /\ ResultOf(stage).err # ""

Succeeded(stage) == HasResult(stage) /\ ResultOf(stage).err = ""

FirstClean == ResultOf("first").clean

\* The draft lines 79-91 leave in text1 when the first call succeeded.
ExpectedDraft ==
  LET merged == TrimSpace(FirstClean \o <<"\n">> \o ResultOf("continuation").clean)
  IN IF Succeeded("continuation") /\ merged # <<>> THEN merged ELSE FirstClean

RepairValidated ==
  Succeeded("repair") /\ validateInsight(ResultOf("repair").clean, p)

\* C1: in every execution the external client is called at most three
\* times, never with two calls outstanding, in the order first, then
\* optionally continuation, then optionally repair.
C1_AtMostThreeSequentialCalls ==
  /\ Len(calls) <= 3
  /\ inflight \in {0, 1}
  /\ Len(calls) = Len(results) + inflight
  /\ Len(calls) >= 1 => calls[1].stage = "first"
  /\ Len(calls) >= 2 => calls[2].stage \in {"continuation", "repair"}
  /\ Len(calls) >= 3 => calls[2].stage = "continuation" /\ calls[3].stage = "repair"

C1_Witness == pc = "done" /\ Len(calls) = 3 /\ Len(results) = 3

\* C2 as stated: CallInsight ends with an error only if no call of the
\* execution produced non-empty cleaned text; if any call (first,
\* continuation or repair) did, it returns non-empty text.
C2_Original ==
  (pc = "done" /\ \E k \in 1..Len(results) : results[k].clean # <<>>)
    => ret.kind = "text" /\ TrimSpace(ret.text) # <<>>

\* Lines 93-114 ran and rejected the draft.
DraftRejected ==
  /\ pc \in {"repair", "done"}
  /\ Succeeded("first")
  /\ ~validateInsight(text1, p)

RepairEmbeds(withList) ==
  /\ rep.NumPoints = p.NumPoints
  /\ rep.NumObservedDays = p.NumObservedDays
  /\ rep.BurnoutLevel = p.BurnoutLevel
  /\ rep.text = text1
  /\ withList => rep.hasList /\ rep.ObservedWeekdaysList = p.ObservedWeekdaysList

\* C3 as stated: whenever the draft (first output after cleaning and the
\* optional continuation) fails Validate, a repair call is issued whose
\* prompt embeds the counts, the observed list, the risk level and the
\* draft, and a repaired text that validates is returned in its place.
C3_Original ==
  DraftRejected =>
    /\ HasCall("repair")
    /\ RepairEmbeds(TRUE)
    /\ (pc = "done" /\ RepairValidated)
         => ret = ReturnText(ResultOf("repair").clean, "repair")

\* C3 amended: when the client is not in fast mode, whenever the draft
\* fails Validate a repair call is issued whose prompt embeds the point
\* count, the observed-day count, the risk level and the draft, and for
\* the periods other than month and all also the observed-weekday list; a
\* repaired text that validates is returned in place of the draft.
C3_RepairOfRejectedDraft ==
  (~fast /\ DraftRejected) =>
    /\ HasCall("repair")
    /\ RepairEmbeds(~IsPeriodPrompt(p))
    /\ (pc = "done" /\ RepairValidated)
         => ret = ReturnText(ResultOf("repair").clean, "repair")

C3_Witness ==
  /\ pc = "done"
  /\ DraftRejected
  /\ RepairValidated
  /\ ret.from = "repair"
  /\ ~IsPeriodPrompt(p)

\* C4: a continuation call is issued only if the cleaned first response
\* was classified truncated, a repair call only if validateInsight rejected
\* the current draft (first text, or merged text after a continuation); a
\* draft that validates never triggers a repair call.
C4_CallsFollowTheirTrigger ==
  /\ HasCall("continuation") =>
       Succeeded("first") /\ isTruncated(finish1, FirstClean)
  /\ HasCall("repair") =>
       /\ Succeeded("first")
       /\ HasCall("continuation") => HasResult("continuation")
       /\ text1 = ExpectedDraft
       /\ ~validateInsight(ExpectedDraft, p)
  /\ (pc = "done" /\ Succeeded("first") /\ validateInsight(ExpectedDraft, p))
       => ~HasCall("repair")

C4_Witness ==
  pc = "done" /\ HasCall("continuation") /\ HasCall("repair")

\* C5 as stated: the output of a repair call is returned only if after
\* cleaning it passes validateInsight; a repaired text that fails
\* validation is never returned and the pre-repair draft is returned
\* instead.
C5_Original ==
  (pc = "done" /\ HasResult("repair")) =>
    /\ ret.from = "repair" => RepairValidated
    /\ (Succeeded("repair") /\ ~RepairValidated) => ret = ReturnText(text1, "draft")

\* C5 amended: the output of a repair call is returned only if after
\* cleaning it passes validateInsight; when it fails validation it is not
\* returned: the pre-repair draft is returned instead if it is not empty,
\* and the "empty content" error if it is.
C5_RepairReturnedOnlyIfValid ==
  (pc = "done" /\ HasResult("repair")) =>
    /\ ret.from = "repair" => RepairValidated
    /\ (Succeeded("repair") /\ ~RepairValidated) =>
         IF TrimSpace(text1) # <<>>
           THEN ret = ReturnText(text1, "draft")
           ELSE ret = ReturnError("ai empty content after cleaning")

C5_Witness ==
  /\ pc = "done"
  /\ Succeeded("repair")
  /\ ResultOf("repair").clean # <<>>
  /\ ~RepairValidated
  /\ ret.from = "draft"

\* C6 as stated: an error of the external client at any of the three call
\* stages is propagated at once: CallInsight returns that error and issues
\* no call after the failed one.
C6_Original ==
  \A k \in 1..Len(results) :
    results[k].err # "" =>
      pc = "done" /\ ret = ReturnError(results[k].err) /\ Len(calls) = k

\* C6 amended: an error of the external client at the first call is
\* propagated at once: CallInsight returns that error and issues no
\* further call.  An error at the continuation or the repair call is never
\* returned: the execution goes on (a repair call may follow a failed
\* continuation) and ends with the draft, a validated repair or the
\* "empty content" error.
C6_OnlyFirstErrorPropagated ==
  /\ Failed("first") =>
       pc = "done" /\ ret = ReturnError(ResultOf("first").err) /\ Len(calls) = 1
  /\ (pc = "done" /\ Succeeded("first")) =>
       /\ ret.err \in {"", "ai empty content after cleaning"}
       /\ Failed("continuation") => ret = (IF RepairValidated
             THEN ReturnText(ResultOf("repair").clean, "repair")
             ELSE ReturnDraft(FirstClean))
       /\ Failed("repair") => ret = ReturnDraft(ExpectedDraft)

C6_Witness ==
  /\ pc = "done"
  /\ Failed("continuation")
  /\ Len(calls) = 3
  /\ Failed("repair")

LaterCallFailedAfterText ==
  /\ pc = "done"
  /\ Succeeded("first")
  /\ FirstClean # <<>>
  /\ Failed("continuation") \/ Failed("repair")

\* C7 as stated: if the continuation or the repair call fails after the
\* first call yielded non-empty cleaned text, CallInsight returns that
\* earlier text (the text of the calls that succeeded before the failure)
\* rather than an error.
C7_Original ==
  LaterCallFailedAfterText => ret.kind = "text" /\ ret.text = ExpectedDraft

\* C7 amended: if the continuation or the repair call fails after the
\* first call yielded non-empty cleaned text, CallInsight returns no error
\* but the draft built from the calls that succeeded (the first text,
\* merged with the continuation if that call succeeded), or, when only the
\* continuation failed and the repair then succeeded and validated, the
\* repaired text.
C7_BestEffortAfterLaterFailure ==
  LaterCallFailedAfterText =>
    /\ ret.kind = "text"
    /\ TrimSpace(ret.text) # <<>>
    /\ IF RepairValidated
         THEN ret.text = ResultOf("repair").clean /\ Failed("continuation")
         ELSE ret.text = ExpectedDraft /\ ret.from = "draft"

C7_Witness ==
  LaterCallFailedAfterText /\ Failed("continuation") /\ Failed("repair")

\* C8: if the caller's context is cancelled or times out while an external
\* call of CallInsight is in flight, CallInsight reports failure and
\* returns no text accumulated from earlier calls.
C8_CancelledMeansFailure ==
  (pc = "done" /\ cancelledAt \in {"first", "continuation", "repair"})
    => ret.kind = "error"

\* C9 as stated: with fewer than 5 samples every text CallInsight returns
\* without error contains the disclaimer sentence verbatim.
C9_Original ==
  (pc = "done" /\ p.NumPoints < 5 /\ ret.kind = "text")
    => Contains(ret.text, needUnknown)

\* C9 amended: with fewer than 5 samples and the client not in fast mode,
\* every text CallInsight returns as validated (a draft returned without a
\* repair call, or the text of a repair call) contains the disclaimer
\* sentence verbatim; a draft returned as best effort after a repair call
\* that failed or did not validate, and the text returned in fast mode,
\* may lack it.
C9_ValidatedTextHasDisclaimer ==
  (pc = "done" /\ p.NumPoints < 5 /\ ret.kind = "text" /\ ~fast)
    => \/ Contains(ret.text, needUnknown)
       \/ /\ ret.from = "draft"
          /\ HasResult("repair")
          /\ ~RepairValidated

C9_Witness ==
  /\ pc = "done"
  /\ p.NumPoints < 5
  /\ ~fast
  /\ ret.from = "repair"
  /\ Contains(ret.text, needUnknown)

(***************************************************************************)
(* Properties of validateInsight.                                          *)
(***************************************************************************)
\* The title h is one of the lines ks, alone on its line.
OwnLine(h, ks) == \E k \in 1..Len(ks) : TrimSpace(LineOf(ks[k])) = <<h>>

\* C10: validateInsight rejects every text in which at least one of the
\* required section titles is not present as a line of its own, whatever
\* the other lines and the prompt are.
C10_MissingHeaderRejected ==
  (vres # "none" /\ \E k \in 1..Len(required) : ~OwnLine(required[k], vlines))
    => vres = "rejected"

\* A text rejected for its first title alone: it is accepted once the
\* title stands on its own line.
C10_Witness ==
  /\ vres = "rejected"
  /\ Len(vlines) = 4
  /\ vlines[1] = "Ebad"
  /\ validateInsight(TextOf(<<"E">> \o Tail(vlines)), p)

\* The k-th of the lines ks is the title h and a line follows it.
TitleAt(h, ks, k) == k < Len(ks) /\ LineOf(ks[k]) = <<h>>

HasTitleLine(h, ks) == \E k \in 1..Len(ks) : TitleAt(h, ks, k)

HasLine(kind, ks) == \E k \in 1..Len(ks) : ks[k] = kind

\* Index of the first action title that has a line before it and a line
\* after it (0 when there is none).
ActionTitleAt(ks) ==
  LET at == {k \in 2..Len(ks) : TitleAt("Chto delat zavtra", ks, k)}
  IN IF at = {} THEN 0 ELSE CHOOSE k \in at : \A j \in at : k <= j

\* The lines of the action section: those after that title.
ActionLines(ks) == SubSeq(ks, ActionTitleAt(ks) + 1, Len(ks))

\* Three action lines, or one line of three sentences.
ThreeActions(ks) ==
  /\ ActionTitleAt(ks) # 0
  /\ Len(ActionLines(ks)) = 3 \/ ActionLines(ks) = <<"A3">>

InsufficientData(q) == q.BurnoutLevel \in {"unknown", "nedostatochno dannyh"}

\* The disclaimer sentence is there exactly when the level asks for it.
DisclaimerStateOK(ks, q) == InsufficientData(q) <=> HasLine("D", ks)

HeadersActionsDisclaimer ==
  /\ vres # "none"
  /\ \A k \in 1..Len(required) : HasTitleLine(required[k], vlines)
  /\ ThreeActions(vlines)
  /\ DisclaimerStateOK(vlines, p)

\* C11 as stated: validateInsight accepts every response that has all the
\* required section titles, exactly three action lines in the action
\* section and the right disclaimer state, for all prompt parameters
\* (sample counts, notes present or absent).
C11_Original == HeadersActionsDisclaimer => vres = "accepted"

\* C11 amended: validateInsight accepts every response that has all the
\* required section titles each on its own line, whose action section (the
\* lines after the first action title that is not the first line, up to
\* the end of the text) holds exactly three action lines or one line of
\* three sentences, and whose disclaimer state is right, provided that it
\* also carries the notes marker when the prompt has notes, has no "little
\* data" wording when the point and observed-day counts are 5 or more, and
\* has no banned term.
C11_WellFormedAccepted ==
  ( /\ HeadersActionsDisclaimer
    /\ p.UserNotes # <<>> => HasLine("N", vlines)
    /\ (p.NumPoints >= 5 /\ p.NumObservedDays >= 5) => ~HasLine("LD", vlines)
    /\ ~HasLine("B", vlines) )
  => vres = "accepted"

C11_Witness ==
  /\ vres = "accepted"
  /\ p.UserNotes # <<>>
  /\ InsufficientData(p)
  /\ Len(ActionLines(vlines)) = 3
  /\ HasLine("N", vlines)
  /\ HasLine("D", vlines)

\* C12 as stated: validateInsight accepts a response only if the required
\* titles appear in the fixed order energy, burnout, action, each on its
\* own line; a response with all the titles in another order is rejected.
C12_Original ==
  vres = "accepted" =>
    \E i, j, k \in 1..Len(vlines) :
      /\ i < j
      /\ j < k
      /\ TitleAt("Energiya", vlines, i)
      /\ TitleAt("Vygoranie", vlines, j)
      /\ TitleAt("Chto delat zavtra", vlines, k)

\* C13: validateInsight enforces the disclaimer state in both directions:
\* with the level "unknown" or "nedostatochno dannyh" a response without
\* the disclaimer sentence is rejected, and with a determinate level a
\* response with the disclaimer sentence is rejected.
C13_DisclaimerBothDirections ==
  vres # "none" =>
    /\ (InsufficientData(p) /\ ~HasLine("D", vlines)) => vres = "rejected"
    /\ (~InsufficientData(p) /\ HasLine("D", vlines)) => vres = "rejected"

\* A response rejected for the missing disclaimer alone: the same text is
\* accepted under a determinate level.
C13_Witness ==
  /\ vres = "rejected"
  /\ p.BurnoutLevel = "nedostatochno dannyh"
  /\ ~HasLine("D", vlines)
  /\ validateInsight(TextOf(vlines), [p EXCEPT !.BurnoutLevel = "low"])

\* C14 as stated: with an insufficient-data level validateInsight rejects
\* every response in which a risk-level adjective (low, medium or high
\* risk) appears, even if the disclaimer is there and every other check
\* passes.
C14_Original ==
  (vres # "none" /\ InsufficientData(p) /\ HasLine("R", vlines))
    => vres = "rejected"

(***************************************************************************)
(* Properties of isTruncated.                                              *)
(***************************************************************************)
\* The last token of text that is not white space ("" when there is none).
LastVisible(text) ==
  LET vis == {i \in 1..Len(text) : text[i] \notin WS}
  IN IF vis = {} THEN ""
     ELSE text[CHOOSE i \in vis : \A j \in vis : j <= i]

LengthCutoff(finishReason) == finishReason \in {"length", "Length", "LENGTH"}

\* C15 as stated: isTruncated classifies a response as truncated whenever
\* the finish reason signals a length cutoff or the trimmed text ends with
\* a colon, a hyphen or an en dash, and classifies a response whose text
\* ends with a terminal period as not truncated.
C15_Original ==
  tres # "none" =>
    /\ (LengthCutoff(tfinish) \/ LastVisible(ttext) \in {":", "-", "EN_DASH"})
         => tres = "truncated"
    /\ LastVisible(ttext) = "." => tres = "complete"

\* C15 amended: isTruncated classifies a response as truncated whenever
\* the finish reason signals a length cutoff or the trimmed text ends with
\* a colon, a hyphen or an en dash; a response whose text ends with a
\* terminal period is classified as not truncated when its finish reason
\* does not signal a length cutoff.
C15_TruncatedByFinishOrEnding ==
  tres # "none" =>
    /\ (LengthCutoff(tfinish) \/ LastVisible(ttext) \in {":", "-", "EN_DASH"})
         => tres = "truncated"
    /\ (LastVisible(ttext) = "." /\ ~LengthCutoff(tfinish))
         => tres = "complete"

\* A text classified truncated for its ending alone, after trimming.
C15_Witness ==
  /\ tres = "truncated"
  /\ tfinish = "stop"
  /\ Len(ttext) = MaxTextLen
  /\ ttext[Len(ttext)] \in WS
  /\ LastVisible(ttext) = "EN_DASH"

(***************************************************************************)
(* Properties of ComputeBurnoutRisk.                                       *)
(***************************************************************************)
\* The nine predicates of lines 91-99 on the measures m, in rule order.
Fires(m) ==
  <<m.avgSleep < 66, m.moodTrend < -15, m.energyVolatility > 180,
    m.modelScore < 45, m.avgStress > 65, m.avgEnergy < 45,
    m.avgSleepQuality < 60, m.percentAlcohol > 30, m.percentWorkout < 20>>

\* The points of the nine rules, in rule order.
PointValues == <<25, 20, 15, 20, 20, 15, 10, 10, 5>>

\* The reasons of the nine rules, in rule order.
ReasonTexts ==
  <<"Nakoplenie nedosypa", "Nishodyaschiy trend nastroeniya",
    "Vysokaya volatilnost energii", "Nizkiy pokazatel produktivnosti",
    "Vysokiy uroven stressa", "Nizkaya samootsenka energii",
    "Nizkoe kachestvo sna", "Chastye otmetki alkogolya",
    "Nizkaya regulyarnost trenirovok">>

RECURSIVE PointsUpTo(_, _)
\* The points of the true predicates among the first k.
PointsUpTo(fires, k) ==
  IF k = 0 THEN 0
  ELSE PointsUpTo(fires, k - 1) + (IF fires[k] THEN PointValues[k] ELSE 0)

\* The measures that make the same predicates true as m and one more.
OneMorePredicate(m) ==
  {m2 \in Measures :
     /\ \A k \in 1..9 : Fires(m)[k] => Fires(m2)[k]
     /\ Cardinality({k \in 1..9 : Fires(m2)[k] # Fires(m)[k]}) = 1}

\* C17: for every combination of the nine predicates the score is the sum
\* of the points of the true predicates (each between 5 and 30) clamped to
\* 0..100, the level is low below 40, medium from 40 to 69 and high from
\* 70 on, and one more true predicate never decreases the score.
C17_ScoreIsClampedSum ==
  brisk # NoRisk =>
    /\ \A k \in 1..9 : PointValues[k] >= 5 /\ PointValues[k] <= 30
    /\ brisk.Score =
         (IF PointsUpTo(Fires(meas), 9) > 100
            THEN 100 ELSE PointsUpTo(Fires(meas), 9))
    /\ brisk.Score >= 0 /\ brisk.Score <= 100
    /\ brisk.Level = "low" <=> brisk.Score < 40
    /\ brisk.Level = "medium" <=> (brisk.Score >= 40 /\ brisk.Score <= 69)
    /\ brisk.Level = "high" <=> brisk.Score >= 70
    /\ \A m2 \in OneMorePredicate(meas) :
         ComputeBurnoutRisk(m2).Score >= brisk.Score

\* All nine predicates hold: the sum of 140 points is clamped.
C17_Witness ==
  /\ brisk.Level = "high"
  /\ brisk.Score = 100
  /\ PointsUpTo(Fires(meas), 9) > 100

\* The rules that fired, in rule order.
FiredRules(m) ==
  SelectSeq(<<1, 2, 3, 4, 5, 6, 7, 8, 9>>, LAMBDA k : Fires(m)[k])

\* C18: the reasons list of ComputeBurnoutRisk is never empty: it holds
\* one fixed reason per true predicate, in rule order, none for a false
\* predicate, and the single "no clear trigger" reason when no predicate is
\* true.
C18_ReasonsNeverEmpty ==
  brisk # NoRisk =>
    /\ Len(brisk.Reasons) >= 1
    /\ FiredRules(meas) # <<>> =>
         /\ Len(brisk.Reasons) = Len(FiredRules(meas))
         /\ \A j \in 1..Len(brisk.Reasons) :
              brisk.Reasons[j] = ReasonTexts[FiredRules(meas)[j]]
    /\ FiredRules(meas) = <<>> =>
         brisk.Reasons = <<"Yavnyh triggerov vygoraniya ne naydeno">>

\* No predicate holds: the list is the single "no clear trigger" reason.
C18_Witness ==
  /\ brisk # NoRisk
  /\ FiredRules(meas) = <<>>
  /\ Len(brisk.Reasons) = 1
  /\ brisk.Level = "low"

(***************************************************************************)
(* Properties of Analyze.                                                  *)
(***************************************************************************)
Did(what) == \E k \in 1..Len(alog) : alog[k] = what

\* The risk of a sample set too small for a burnout forecast.
InsufficientRisk ==
  [Score |-> 0,
   Level |-> "nedostatochno dannyh",
   Reasons |-> <<"Nedostatochno dannyh dlya prognoza vygoraniya">>,
   PredictionHorizonDays |-> 14]

\* C16: whenever Analyze works on fewer than 5 samples, the BurnoutRisk it
\* returns has the insufficient-data level, score 0, horizon 14 and
\* exactly one fixed reason, whatever the samples measure: the nine burnout
\* rules are not evaluated.
C16_FewSamplesInsufficientData ==
  (Did("score") /\ npts < 5) =>
    /\ awork.BurnoutRisk = InsufficientRisk
    /\ Len(awork.BurnoutRisk.Reasons) = 1
    /\ aout.kind = "resp" => aout.resp.BurnoutRisk = InsufficientRisk

\* Four samples on which all nine rules hold.
C16_Witness ==
  /\ aout.kind = "resp"
  /\ Did("score")
  /\ npts = 4
  /\ \A k \in 1..9 : Fires(ameas)[k]
  /\ aout.resp.BurnoutRisk = InsufficientRisk

\* The metrics Analyze computes from the loaded points.
MetricsOf(resp) ==
  /\ resp.set
  /\ resp.ProductivityModel = ameas.modelScore
  /\ resp.BurnoutRisk =
       (IF npts < 5 THEN InsufficientRisk ELSE ComputeBurnoutRisk(ameas))

LLMErrorTolerated ==
  (apc = "done" /\ Did("llm error")) =>
    /\ aout.kind = "resp"
    /\ MetricsOf(aout.resp)
    /\ aout.resp.LLMInsight \in
         {"LLM insight unavailable: " \o e : e \in InsightErrors}

\* C19 as stated: Analyze fails outright only when no samples exist for
\* the period or the sample storage is unavailable; an error of the
\* text-generation client never makes it fail: the full metrics are
\* returned with the narrative replaced by an "unavailable" text.
C19_Original ==
  /\ (apc = "done" /\ aout.kind = "error") =>
       \/ Did("load") /\ npts = 0
       \/ ~repoOn
       \/ Did("load error")
  /\ LLMErrorTolerated

\* C19 amended: Analyze fails outright only when the request carries no
\* positive user id, when no samples exist for the period or when the
\* sample storage is unavailable (no repository, or the query of the track
\* points fails); an error of the text-generation client never makes it
\* fail: the full metrics are returned with the narrative replaced by an
\* "unavailable" text.
C19_FailsOnlyWithoutInput ==
  /\ (apc = "done" /\ aout.kind = "error") =>
       \/ areq.UserID <= 0
       \/ Did("load") /\ npts = 0
       \/ ~repoOn
       \/ Did("load error")
  /\ LLMErrorTolerated

C19_Witness ==
  /\ apc = "done"
  /\ Did("llm error")
  /\ npts >= 5
  /\ aout.kind = "resp"
  /\ aout.resp.BurnoutRisk.Level = "high"

\* C20: when the loaded sample set is empty, Analyze returns a
\* precondition error before any scoring, and in that execution it neither
\* calls the text-generation client nor writes the response cache, the
\* history record or the last-analysis record.
C20_EmptySampleSetRejected ==
  (Did("load") /\ npts = 0) =>
    /\ apc = "done"
    /\ aout = ReturnErr("need at least 1 point for analytics")
    /\ awork = NoResponse
    /\ ~Did("score") /\ ~Did("llm")
    /\ ~Did("cache") /\ ~Did("history") /\ ~Did("last")
    /\ \A k \in CacheKeys : history[k] = NoResponse
    /\ \A k \in LastKeys : last[k] = NoResponse

C20_Witness ==
  /\ Did("load")
  /\ npts = 0
  /\ llmOn
  /\ aout.kind = "error"
  /\ areq.UserID > 0

(***************************************************************************)
(* Fast mode of CallInsight.                                               *)
(***************************************************************************)
\* C28: in fast mode CallInsight issues exactly one external call and
\* returns the normalized and sanitized first response without
\* validateInsight, continuation or repair; it returns an error only if
\* that call fails or the cleaned text is empty.
C28_FastModeSingleCall ==
  fast =>
    /\ pc \in {"start", "first", "done"}
    /\ contPrompt = NoPrompt /\ rep = NoPrompt
    /\ pc = "done" =>
         /\ Len(calls) = 1 /\ calls[1].stage = "first"
         /\ Len(results) = 1
         /\ ret.kind = "error" <=>
              (Failed("first") \/ TrimSpace(FirstClean) = <<>>)
         /\ Failed("first") => ret = ReturnError(ResultOf("first").err)
         /\ Succeeded("first") /\ TrimSpace(FirstClean) # <<>> =>
              ret = ReturnText(FirstClean, "draft")

\* A first text that is truncated and fails validateInsight is returned
\* as it is.
C28_Witness ==
  /\ fast
  /\ pc = "done"
  /\ ret.kind = "text"
  /\ ~validateInsight(ret.text, p)
  /\ isTruncated(finish1, ret.text)
  /\ Len(calls) = 1

\* ---------------------------------------------------------------------
\* Normalization of a raw response on its own: toPlainText applied to the
\* raw texts of at most MaxRawLen tokens.

MaxRawLen == 3

ThinkOpen == {"<think>", "<THINK>", "<Think>"}

ThinkClose == {"</think>", "</THINK>", "</Think>"}

RawTokens == {"<think>", "</think>", "</Think>", "w", "Analysis", " "}

RawResponses == UNION {[1..n -> RawTokens] : n \in 0..MaxRawLen}

InitClean ==
  /\ craw \in RawResponses
  /\ cout = <<"none">>
  /\ IdleInsight
  /\ IdleValidate
  /\ IdleTruncated
  /\ IdleRisk
  /\ IdleAnalyze
  /\ IdleBatch
  /\ IdleTrack
  /\ IdleCalls
  /\ IdleFriends

Clean ==
  /\ cout = <<"none">>
  /\ cout' = toPlainText(craw)
  /\ UNCHANGED <<craw, insightVars, validateVars, truncVars, riskVars,
                 analyzeVars, batchVars, trackVars,
                 callsVars, friendVars>>

NextClean == Clean

SpecClean == InitClean /\ [][NextClean]_vars

Cleaned == cout # <<"none">>

\* Position j of the raw text lies between a reasoning start marker and a
\* later reasoning end marker.
Enclosed(s, j) ==
  /\ s[j] \notin ThinkOpen \cup ThinkClose \cup WS
  /\ \E i \in 1..(j - 1) : s[i] \in ThinkOpen
  /\ \E k \in (j + 1)..Len(s) : s[k] \in ThinkClose

HasClose(s) == \E k \in 1..Len(s) : s[k] \in ThinkClose

AfterLastClose(s) ==
  LET k == CHOOSE k \in 1..Len(s) :
             s[k] \in ThinkClose /\ \A l \in (k + 1)..Len(s) : s[l] \notin ThinkClose
  IN SubSeq(s, k + 1, Len(s))

\* C24: after normalization of any raw response, a word that occurs in the
\* raw response only between a reasoning start marker and a reasoning end
\* marker is not part of the output, and when a closing marker is present
\* the output is the (trimmed) text after the last closing marker.
C24_Original ==
  Cleaned =>
    /\ \A j \in 1..Len(craw) :
         (Enclosed(craw, j)
          /\ \A l \in 1..Len(craw) : craw[l] = craw[j] => Enclosed(craw, l))
           => ~Contains(cout, <<craw[j]>>)
    /\ HasClose(craw) => cout = TrimSpace(AfterLastClose(craw))

\* ---------------------------------------------------------------------
\* The daily scheduler (main.go:577-595): one batch over the users that
\* have samples, under one context with a deadline for the whole batch.

BatchUsers == {1, 2, 3}

BatchPeriods == <<"day", "week", "month", "all">>

\* The lists without repetition that "select distinct user_id" can return.
UserLists ==
  {l \in UNION {[1..n -> BatchUsers] : n \in 1..Cardinality(BatchUsers)} :
     \A i, j \in 1..Len(l) : i # j => l[i] # l[j]}

\* Outcomes of one Analyze call of the batch:
\*   "ok"       it returned a response
\*   "error"    it failed for a reason of its own (storage, no samples)
\*   "timeout"  the deadline of the batch context passed during the call
\*   "expired"  the batch context was already done when the call started,
\*              so GetTrackPoints (part_013:82-85) returned its error
BatchOutcomes == {"ok", "error", "timeout"}

InitBatch ==
  /\ bpc = "sleep"
  /\ busers = <<>>
  /\ bidx = 0
  /\ bper = 0
  /\ bexpired = FALSE
  /\ bout = [u \in BatchUsers |-> [k \in 1..Len(BatchPeriods) |-> "none"]]
  /\ IdleInsight
  /\ IdleValidate
  /\ IdleTruncated
  /\ IdleRisk
  /\ IdleAnalyze
  /\ IdleClean
  /\ IdleTrack
  /\ IdleCalls
  /\ IdleFriends

\* Lines 583-585: the context of the batch is created and the users are
\* listed; on an error nothing is analysed.
BatchList(users, ok) ==
  /\ bpc = "sleep"
  /\ IF ok
       THEN bpc' = "loop" /\ busers' = users /\ bidx' = 1 /\ bper' = 1
       ELSE bpc' = "done" /\ UNCHANGED <<busers, bidx, bper>>
  /\ UNCHANGED <<bexpired, bout>>
  /\ UNCHANGED <<insightVars, validateVars, truncVars, riskVars,
                 analyzeVars, cleanVars, trackVars,
                 callsVars, friendVars>>

\* Lines 586-589 with part_013:240-263: the next Analyze call of the user
\* at hand, with the context of the batch; its error is dropped and the
\* loops go on.
BatchAnalyze(o) ==
  /\ bpc = "loop"
  /\ bout' = [bout EXCEPT ![busers[bidx]][bper] =
                IF bexpired THEN "expired" ELSE o]
  /\ bexpired' = (bexpired \/ o = "timeout")
  /\ IF bper < Len(BatchPeriods)
       THEN bper' = bper + 1 /\ UNCHANGED <<bpc, bidx>>
       ELSE IF bidx < Len(busers)
         THEN bidx' = bidx + 1 /\ bper' = 1 /\ UNCHANGED bpc
         ELSE bpc' = "done" /\ UNCHANGED <<bidx, bper>>
  /\ UNCHANGED busers
  /\ UNCHANGED <<insightVars, validateVars, truncVars, riskVars,
                 analyzeVars, cleanVars, trackVars,
                 callsVars, friendVars>>

NextBatch ==
  \/ \E users \in UserLists, ok \in BOOLEAN : BatchList(users, ok)
  \/ \E o \in BatchOutcomes : BatchAnalyze(o)

SpecBatch == InitBatch /\ [][NextBatch]_vars

InBatch(u) == \E i \in 1..Len(busers) : busers[i] = u

\* The analysis of user u ran and completed: every period has an outcome
\* that the calls for u produced themselves.
RanOwn(u) ==
  \A k \in 1..Len(BatchPeriods) : bout[u][k] \in BatchOutcomes

\* The deadline passed during one of the calls for user u.
TimedOut(u) == \E k \in 1..Len(BatchPeriods) : bout[u][k] = "timeout"

\* C21: when the batch is over, every user of the batch whose own analysis
\* did not hit the deadline has had all their analyses run with an outcome
\* of their own: a failure or a timeout while another user was analysed
\* has not cut them short.
C21_Original ==
  (bpc = "done" /\ busers # <<>>) =>
    \A u \in BatchUsers : (InBatch(u) /\ ~TimedOut(u)) => RanOwn(u)

\* ---------------------------------------------------------------------
\* Track (part_013:202-238) and the background analysis it starts
\* (part_013:269-277), for the calls of one user about one local day.
\* Every statement sent to the database is one step.

TrackCalls == {1, 2}

\* The 5-minute buckets of the day that the points fall into.
Buckets == {1, 2}

TrackStatuses == {"pending", "ready", "failed"}

NoSnap == {0}

\* The background analysis before it is started.
NoBg == [pc |-> "off", k |-> 0, expired |-> FALSE, err |-> FALSE, snap |-> {}]

InitTrack ==
  /\ rows = {}
  /\ nid = 1
  /\ tpc = [t \in TrackCalls |-> "idle"]
  /\ tsel = [t \in TrackCalls |-> 0]
  /\ tpoint = [t \in TrackCalls |-> 0]
  /\ bg = [t \in TrackCalls |-> NoBg]
  /\ lastrec = [k \in 1..Len(BatchPeriods) |-> NoSnap]
  /\ IdleInsight
  /\ IdleValidate
  /\ IdleTruncated
  /\ IdleRisk
  /\ IdleAnalyze
  /\ IdleClean
  /\ IdleBatch
  /\ IdleCalls
  /\ IdleFriends

\* The row "order by ts desc limit 1" finds, 0 if the day has no row.
LatestRow ==
  IF rows = {} THEN 0
  ELSE (CHOOSE r \in rows : \A q \in rows : q.bucket <= r.bucket).id

\* part_011:232-238: the select of UpsertTrackPointForDay.
TrackSelect(t, b) ==
  /\ tpc[t] = "idle"
  /\ tpoint' = [tpoint EXCEPT ![t] = b]
  /\ tsel' = [tsel EXCEPT ![t] = LatestRow]
  /\ tpc' = [tpc EXCEPT ![t] = "selected"]
  /\ UNCHANGED <<rows, nid, bg, lastrec>>
  /\ UNCHANGED <<insightVars, validateVars, truncVars, riskVars,
                 analyzeVars, cleanVars, batchVars,
                 callsVars, friendVars>>

\* The unique index on (user_id, time_bucket_5m) rejects the write.
BucketTaken(id, b) == \E r \in rows : r.id # id /\ r.bucket = b

\* part_011:239-288: the update of the selected row or, when the select
\* found none, the insert of a new row.
TrackWrite(t) ==
  /\ tpc[t] = "selected"
  /\ IF tsel[t] # 0
       THEN IF BucketTaken(tsel[t], tpoint[t])
              THEN tpc' = [tpc EXCEPT ![t] = "error"] /\ UNCHANGED <<rows, nid>>
              ELSE /\ rows' = {IF r.id = tsel[t]
                                 THEN [id |-> r.id, bucket |-> tpoint[t],
                                       src |-> t, status |-> "pending"]
                                 ELSE r : r \in rows}
                   /\ tpc' = [tpc EXCEPT ![t] = "written"]
                   /\ UNCHANGED nid
       ELSE IF BucketTaken(0, tpoint[t])
              THEN tpc' = [tpc EXCEPT ![t] = "error"] /\ UNCHANGED <<rows, nid>>
              ELSE /\ rows' = rows \cup {[id |-> nid, bucket |-> tpoint[t],
                                          src |-> t, status |-> "pending"]}
                   /\ nid' = nid + 1
                   /\ tpc' = [tpc EXCEPT ![t] = "written"]
  /\ UNCHANGED <<tsel, tpoint, bg, lastrec>>
  /\ UNCHANGED <<insightVars, validateVars, truncVars, riskVars,
                 analyzeVars, cleanVars, batchVars,
                 callsVars, friendVars>>

\* part_011:314-332: every row of the day gets the status.
SetAnalysisStatusForDay(status) ==
  {[id |-> r.id, bucket |-> r.bucket, src |-> r.src, status |-> status] :
     r \in rows}

\* part_013:229-232: the status write, whose error is dropped, and the start
\* of the background analysis with a context of its own.
TrackPending(t, ok) ==
  /\ tpc[t] = "written"
  /\ rows' = IF ok THEN SetAnalysisStatusForDay("pending") ELSE rows
  /\ bg' = [bg EXCEPT ![t] = [NoBg EXCEPT !.pc = "load", !.k = 1]]
  /\ tpc' = [tpc EXCEPT ![t] = "done"]
  /\ UNCHANGED <<nid, tsel, tpoint, lastrec>>
  /\ UNCHANGED <<insightVars, validateVars, truncVars, riskVars,
                 analyzeVars, cleanVars, batchVars,
                 callsVars, friendVars>>

\* The position after the Analyze call for period k.
AfterPeriod(b) ==
  IF b.k < Len(BatchPeriods)
    THEN [b EXCEPT !.pc = "load", !.k = b.k + 1]
    ELSE [b EXCEPT !.pc = "status"]

\* part_013:70-88 in the loop of lines 251-261: the Analyze call for the
\* next period returns a cached response, or loads the samples, or fails to
\* load them; with a context that is done the load fails.
BgLoad(t, o) ==
  /\ bg[t].pc = "load"
  /\ bg' = [bg EXCEPT ![t] =
       IF bg[t].expired \/ o = "error"
         THEN AfterPeriod([bg[t] EXCEPT !.err = TRUE])
         ELSE IF o = "hit" THEN AfterPeriod(bg[t])
         ELSE [bg[t] EXCEPT !.pc = "store", !.snap = {r.src : r \in rows}]]
  /\ UNCHANGED <<rows, nid, tpc, tsel, tpoint, lastrec>>
  /\ UNCHANGED <<insightVars, validateVars, truncVars, riskVars,
                 analyzeVars, cleanVars, batchVars,
                 callsVars, friendVars>>

\* part_013:197 and 329-344: the result is stored as the last analysis of
\* the period; with a context that is done the write fails and its error is
\* dropped.
BgStore(t) ==
  /\ bg[t].pc = "store"
  /\ lastrec' = IF bg[t].expired THEN lastrec
                ELSE [lastrec EXCEPT ![bg[t].k] = bg[t].snap]
  /\ bg' = [bg EXCEPT ![t] = AfterPeriod(bg[t])]
  /\ UNCHANGED <<rows, nid, tpc, tsel, tpoint>>
  /\ UNCHANGED <<insightVars, validateVars, truncVars, riskVars,
                 analyzeVars, cleanVars, batchVars,
                 callsVars, friendVars>>

\* part_013:272-276: "failed" or "ready" is written with the context of the
\* background analysis; when that context is done the write fails and its
\* error is dropped.
BgStatus(t) ==
  /\ bg[t].pc = "status"
  /\ rows' = IF bg[t].expired THEN rows
             ELSE SetAnalysisStatusForDay(IF bg[t].err THEN "failed"
                                          ELSE "ready")
  /\ bg' = [bg EXCEPT ![t].pc = "done"]
  /\ UNCHANGED <<nid, tpc, tsel, tpoint, lastrec>>
  /\ UNCHANGED <<insightVars, validateVars, truncVars, riskVars,
                 analyzeVars, cleanVars, batchVars,
                 callsVars, friendVars>>

\* part_013:270: the two minutes of the context are over.
BgTimeout(t) ==
  /\ bg[t].pc \in {"load", "store", "status"}
  /\ ~bg[t].expired
  /\ bg' = [bg EXCEPT ![t].expired = TRUE]
  /\ UNCHANGED <<rows, nid, tpc, tsel, tpoint, lastrec>>
  /\ UNCHANGED <<insightVars, validateVars, truncVars, riskVars,
                 analyzeVars, cleanVars, batchVars,
                 callsVars, friendVars>>

LoadOutcomes == {"load", "error", "hit"}

BgStep(t) ==
  \/ \E o \in LoadOutcomes : BgLoad(t, o)
  \/ BgStore(t)
  \/ BgStatus(t)

NextTrack ==
  \/ \E t \in TrackCalls, b \in Buckets : TrackSelect(t, b)
  \/ \E t \in TrackCalls : TrackWrite(t)
  \/ \E t \in TrackCalls, ok \in BOOLEAN : TrackPending(t, ok)
  \/ \E t \in TrackCalls : BgStep(t)
  \/ \E t \in TrackCalls : BgTimeout(t)

SpecTrack == InitTrack /\ [][NextTrack]_vars

DayStatus ==
  (CHOOSE r \in rows : \A q \in rows : q.bucket <= r.bucket).status

Running(t) == bg[t].pc \in {"load", "store", "status"}

\* C23: after any interleaving of Track calls of the user for the day, at
\* most one sample of the day is stored.
C23_Original == Cardinality(rows) <= 1

\* The samples the last analyses were computed from are the stored ones.
LastFromLatest ==
  \A k \in 1..Len(BatchPeriods) :
    lastrec[k] # NoSnap => lastrec[k] = {r.src : r \in rows}

\* C27: whenever the status of the day is "ready", no background analysis
\* that a Track call for the day started is still running, and the last
\* analyses were computed from the samples now stored.
C27_Original ==
  (rows # {} /\ DayStatus = "ready") =>
    /\ \A t \in TrackCalls : ~Running(t)
    /\ LastFromLatest

\* The handlers and the goroutines that have started keep running: every
\* step but the start of a Track call and the timeout is taken in the end.
TrackFairness ==
  \A t \in TrackCalls :
    /\ WF_vars(TrackWrite(t))
    /\ WF_vars(\E ok \in BOOLEAN : TrackPending(t, ok))
    /\ WF_vars(BgStep(t))

SpecTrackLive == InitTrack /\ [][NextTrack]_vars /\ TrackFairness

StatusSettled == rows # {} /\ DayStatus \in {"ready", "failed"}

\* C26: after every Track call that stored a sample and started the
\* background analysis, the status of the day is in the end "ready" or
\* "failed", also when the background analysis runs into its timeout.
C26_Original ==
  \A t \in TrackCalls : (tpc[t] = "done") ~> StatusSettled

\* ---------------------------------------------------------------------
\* Several Analyze calls (part_013:54-200) of different users against one
\* repository. The response of a call is represented by the user whose
\* samples it was computed from.

AnalyzeCalls == {1, 2, 3}

CallUsers == {1, 2}

CallRequests == [UserID : CallUsers, Period : AnalyzePeriods]

CallKeys == {buildCacheKey(req) : req \in CallRequests}

NoComputed == [samples |-> 0, period |-> "none"]

\* Lines 82-195: the response computed from the samples of the user of the
\* request.
Computed(req) == [samples |-> req.UserID, period |-> req.Period]

NoRecord == [call |-> 0, request |-> NoRequest, response |-> NoComputed]

InitCalls ==
  /\ xllm \in BOOLEAN
  /\ xpc = [c \in AnalyzeCalls |-> "start"]
  /\ xreq = [c \in AnalyzeCalls |-> NoRequest]
  /\ xwork = [c \in AnalyzeCalls |-> NoComputed]
  /\ xret = [c \in AnalyzeCalls |-> NoComputed]
  /\ xcache = [k \in CallKeys |-> NoComputed]
  /\ xhist = [k \in CallKeys |-> NoRecord]
  /\ xlast = [u \in CallUsers |-> [per \in AnalyzePeriods |-> NoComputed]]
  /\ IdleInsight
  /\ IdleValidate
  /\ IdleTruncated
  /\ IdleRisk
  /\ IdleAnalyze
  /\ IdleClean
  /\ IdleBatch
  /\ IdleTrack
  /\ IdleFriends

\* Lines 70-88: the cache is asked when there is no LLM client, and what it
\* holds under the key is returned; otherwise the samples of the user are
\* loaded (loadOK: the load succeeds and finds at least one sample).
CallLoad(c, req, cacheOK, loadOK) ==
  /\ xpc[c] = "start"
  /\ xreq' = [xreq EXCEPT ![c] = req]
  /\ LET key == buildCacheKey(req)
         hit == ~xllm /\ cacheOK /\ xcache[key] # NoComputed
     IN IF hit
          THEN /\ xret' = [xret EXCEPT ![c] = xcache[key]]
               /\ xpc' = [xpc EXCEPT ![c] = "returned"]
               /\ UNCHANGED xwork
          ELSE IF loadOK
            THEN /\ xwork' = [xwork EXCEPT ![c] = Computed(req)]
                 /\ xpc' = [xpc EXCEPT ![c] = "computed"]
                 /\ UNCHANGED xret
            ELSE /\ xpc' = [xpc EXCEPT ![c] = "failed"]
                 /\ UNCHANGED <<xwork, xret>>
  /\ UNCHANGED <<xllm, xcache, xhist, xlast>>
  /\ UNCHANGED <<insightVars, validateVars, truncVars, riskVars,
                 analyzeVars, cleanVars, batchVars, trackVars,
                 friendVars>>

\* Lines 197-199 with storeResult, lines 329-344: the response goes to the
\* cache, to the table analyses under the cache key, and to last_analyses;
\* then it is returned.
CallStore(c) ==
  /\ xpc[c] = "computed"
  /\ LET key == buildCacheKey(xreq[c]) IN
     /\ xcache' = [xcache EXCEPT ![key] = xwork[c]]
     /\ xhist' = [xhist EXCEPT ![key] =
                    [call |-> c, request |-> xreq[c], response |-> xwork[c]]]
  /\ xlast' = [xlast EXCEPT ![xreq[c].UserID][xreq[c].Period] = xwork[c]]
  /\ xret' = [xret EXCEPT ![c] = xwork[c]]
  /\ xpc' = [xpc EXCEPT ![c] = "returned"]
  /\ UNCHANGED <<xllm, xreq, xwork>>
  /\ UNCHANGED <<insightVars, validateVars, truncVars, riskVars,
                 analyzeVars, cleanVars, batchVars, trackVars,
                 friendVars>>

NextCalls ==
  \/ \E c \in AnalyzeCalls, req \in CallRequests, cacheOK, loadOK \in BOOLEAN :
       CallLoad(c, req, cacheOK, loadOK)
  \/ \E c \in AnalyzeCalls : CallStore(c)

SpecCalls == InitCalls /\ [][NextCalls]_vars

\* C22: a record of the table analyses, once written, is not modified or
\* replaced by any later Analyze call.
C22_Original ==
  [][\A k \in CallKeys : xhist[k] # NoRecord => xhist'[k] = xhist[k]]_vars

\* C25: with the LLM client disabled, the response a call returns was
\* computed from the samples of the user of that call.
C25_Original ==
  ~xllm =>
    \A c \in AnalyzeCalls :
      xpc[c] = "returned" => xret[c].samples = xreq[c].UserID

\* ---------------------------------------------------------------------
\* Friend requests (part_011:479-527, 571-627) and the reads on behalf of a
\* viewer (friends.go:32-58, part_011:377-406). A transaction runs at the
\* default isolation level of the database: its select sees what was
\* committed when the select ran, and its writes take effect together at
\* the commit.

FriendOps == {1, 2, 3}

\* User ids; 0 is an id that the checks "<= 0" reject.
FriendUsers == {1, 2}

FriendIds == {0} \cup FriendUsers

Pairs == {pr \in FriendUsers \X FriendUsers : pr[1] # pr[2]}

FriendActions == {"accept", "decline", "block"}

NoOp == [pc |-> "idle", a |-> 0, b |-> 0, act |-> "", err |-> ""]

NoView ==
  [what |-> "none", viewer |-> 0, target |-> 0, allowed |-> FALSE,
   data |-> 0, err |-> ""]

InitFriends ==
  /\ freq = [pr \in Pairs |-> "none"]
  /\ friends = {}
  /\ fop = [o \in FriendOps |-> NoOp]
  /\ flog = {}
  /\ fout = NoView
  /\ IdleInsight
  /\ IdleValidate
  /\ IdleTruncated
  /\ IdleRisk
  /\ IdleAnalyze
  /\ IdleClean
  /\ IdleBatch
  /\ IdleTrack
  /\ IdleCalls

OpDone(o, e) == [fop EXCEPT ![o] = [@ EXCEPT !.pc = "done", !.err = e]]

\* part_011:483-498: the ids are checked and the table friends is asked
\* whether the two are friends already.
CreateCheck(o, from, to) ==
  /\ fop[o].pc = "idle"
  /\ fop' = IF from <= 0 \/ to <= 0 \/ from = to
              THEN OpDone(o, "repository: invalid user id")
            ELSE IF <<from, to>> \in friends
              THEN OpDone(o, "already friends")
            ELSE [fop EXCEPT ![o] = [NoOp EXCEPT !.pc = "create",
                                                !.a = from, !.b = to]]
  /\ UNCHANGED <<freq, friends, flog, fout>>
  /\ UNCHANGED <<insightVars, validateVars, truncVars, riskVars,
                 analyzeVars, cleanVars, batchVars, trackVars, callsVars>>

\* part_011:500-514: the request is inserted or, when the pair has one
\* already, set back to "pending"; the transaction commits.
CreateCommit(o) ==
  /\ fop[o].pc = "create"
  /\ freq' = [freq EXCEPT ![<<fop[o].a, fop[o].b>>] = "pending"]
  /\ fop' = OpDone(o, "")
  /\ UNCHANGED <<friends, flog, fout>>
  /\ UNCHANGED <<insightVars, validateVars, truncVars, riskVars,
                 analyzeVars, cleanVars, batchVars, trackVars, callsVars>>

\* part_011:575-600: the action is checked, the request is selected if it
\* is pending, and the caller has to be its recipient.
RespondSelect(o, userID, req, action) ==
  /\ fop[o].pc = "idle"
  /\ fop' = IF userID <= 0 THEN OpDone(o, "repository: invalid input")
            ELSE IF action \notin {"accept", "decline"}
              THEN OpDone(o, "invalid action")
            ELSE IF freq[req] # "pending" THEN OpDone(o, "no rows")
            ELSE IF req[2] # userID THEN OpDone(o, "forbidden")
            ELSE [fop EXCEPT ![o] = [NoOp EXCEPT !.pc = "respond",
                                                !.a = req[1], !.b = req[2],
                                                !.act = action]]
  /\ UNCHANGED <<freq, friends, flog, fout>>
  /\ UNCHANGED <<insightVars, validateVars, truncVars, riskVars,
                 analyzeVars, cleanVars, batchVars, trackVars, callsVars>>

\* part_011:602-626: on "accept" the two rows of friends are inserted; the
\* request gets its new status whatever its status is by now; the
\* transaction commits.
RespondCommit(o) ==
  /\ fop[o].pc = "respond"
  /\ LET req == <<fop[o].a, fop[o].b>> IN
     /\ friends' = IF fop[o].act = "accept"
                     THEN friends \cup {req, <<req[2], req[1]>>}
                     ELSE friends
     /\ freq' = [freq EXCEPT ![req] = IF fop[o].act = "accept"
                                        THEN "accepted" ELSE "declined"]
     /\ flog' = flog \cup {[req |-> req, by |-> fop[o].b, was |-> freq[req]]}
  /\ fop' = OpDone(o, "")
  /\ UNCHANGED fout
  /\ UNCHANGED <<insightVars, validateVars, truncVars, riskVars,
                 analyzeVars, cleanVars, batchVars, trackVars, callsVars>>

\* A variant of GetUserProfileForViewer without the look at the table
\* friends.
GetUserProfileForViewer_open(viewerID, targetID, dbOK) ==
  IF viewerID <= 0 \/ targetID <= 0
    THEN [data |-> 0, err |-> "repository: invalid user id"]
  ELSE IF ~dbOK THEN [data |-> 0, err |-> "storage"]
  ELSE [data |-> targetID, err |-> ""]

\* part_011:377-406: the profile of the target for the viewer.
GetUserProfileForViewer(viewerID, targetID, dbOK) ==
  IF viewerID <= 0 \/ targetID <= 0
    THEN [data |-> 0, err |-> "repository: invalid user id"]
  ELSE IF ~dbOK THEN [data |-> 0, err |-> "storage"]
  ELSE IF viewerID # targetID /\ <<viewerID, targetID>> \notin friends
    THEN [data |-> 0, err |-> "forbidden"]
  ELSE [data |-> targetID, err |-> ""]

\* friends.go:42-58: the last analyses of the target for the viewer.
GetUserLastAnalysesForViewer(viewerID, targetID, dbOK) ==
  IF viewerID <= 0 \/ targetID <= 0
    THEN [data |-> 0, err |-> "invalid user id"]
  ELSE IF viewerID # targetID
          /\ GetUserProfileForViewer(viewerID, targetID, dbOK).err # ""
    THEN [data |-> 0,
          err |-> GetUserProfileForViewer(viewerID, targetID, dbOK).err]
  ELSE IF ~dbOK THEN [data |-> 0, err |-> "storage"]
  ELSE [data |-> targetID, err |-> ""]

\* The viewer is the target or has the target among their friends.
Allowed(v, t) == v = t \/ <<v, t>> \in friends

\* One call of either read, with what the viewer was entitled to.
View(what, viewerID, targetID, dbOK) ==
  /\ LET r == IF what = "profile"
                THEN GetUserProfileForViewer(viewerID, targetID, dbOK)
                ELSE GetUserLastAnalysesForViewer(viewerID, targetID, dbOK)
     IN fout' = [what |-> what, viewer |-> viewerID, target |-> targetID,
                 allowed |-> Allowed(viewerID, targetID),
                 data |-> r.data, err |-> r.err]
  /\ UNCHANGED <<freq, friends, fop, flog>>
  /\ UNCHANGED <<insightVars, validateVars, truncVars, riskVars,
                 analyzeVars, cleanVars, batchVars, trackVars, callsVars>>

NextFriends ==
  \/ \E o \in FriendOps, from, to \in FriendIds : CreateCheck(o, from, to)
  \/ \E o \in FriendOps : CreateCommit(o)
  \/ \E o \in FriendOps, u \in FriendIds, req \in Pairs,
        action \in FriendActions : RespondSelect(o, u, req, action)
  \/ \E o \in FriendOps : RespondCommit(o)
  \/ \E what \in {"profile", "analyses"}, v, t \in FriendIds, dbOK \in BOOLEAN :
       View(what, v, t, dbOK)

SpecFriends == InitFriends /\ [][NextFriends]_vars

\* C29: two users are friends only if a request between them has the status
\* "accepted" now; the friends relation is symmetric; and every request was
\* resolved by its recipient while it was pending.
C29_Original ==
  /\ \A pr \in friends :
       /\ freq[pr] = "accepted" \/ freq[<<pr[2], pr[1]>>] = "accepted"
       /\ <<pr[2], pr[1]>> \in friends
  /\ \A e \in flog : e.by = e.req[2] /\ e.was = "pending"

====
